---- MODULE Spec2Model ----
(***************************************************************************)
(* MMTU GPA Insite (src/app.py): the GPA engine of the Flask application.  *)
(*                                                                         *)
(* The model covers apply_reference, the /calculate handler, the           *)
(* /calculate-final-gpa handler and the /save-result handler, with the     *)
(* session dictionary and the tables they read and write.                  *)
(*                                                                         *)
(* Three specifications share the handlers.  Spec runs one call from       *)
(* every input and session.  SpecSession runs any sequence of /calculate   *)
(* and /save-result requests of one browser.  SpecConcurrent interleaves   *)
(* the /calculate requests of two browsers, each with its own session      *)
(* cookie.                                                                 *)
(*                                                                         *)
(* Numbers.  A GPA is a Python float that round(x, 2) produced, so it is   *)
(* the double nearest to some decimal h/100; the model keeps the integer   *)
(* h ("hundredths").  Grade points (5.0 .. 0.0) and the credit are kept as *)
(* the integers they are.                                                  *)
(*                                                                         *)
(* Values.  A JSON / Python value is a record tagged with its type:        *)
(* None, Bool(b), Num(n), Str(cs), List(xs), Dict(f).  A str is the        *)
(* sequence of its characters (iterating a str yields them one by one); a  *)
(* dict is a function from its keys to its values, and a key that is       *)
(* absent is absent from the function's domain.                            *)
(***************************************************************************)
EXTENDS Integers, Sequences, FiniteSets, TLC

VARIABLES
    session,        \* flask.session of the browser that sends the call: a dict
    saved_records,  \* the saved_records table: a sequence of rows, oldest first
    call,           \* the call in flight: its function and its arguments
    result,         \* what the call returned, Pending until it has run
    save_actions,   \* the save_actions table: a sequence of rows, oldest first
    last_success,   \* history: what the latest successful /calculate of the
                    \* session was sent and answered, None before the first
    cookies,        \* the session cookie each browser holds, where several
                    \* browsers take part
    requests,       \* the request of each of these browsers and how far the
                    \* server has come with it
    final_gpa_records   \* the final_gpa_records table

vars == <<session, saved_records, call, result, save_actions, last_success,
          cookies, requests, final_gpa_records>>

---------------------------------------------------------------------------
(* Python values *)

None == [t |-> "null"]
Bool(b) == [t |-> "bool", v |-> b]
Num(n) == [t |-> "num", v |-> n]
Str(cs) == [t |-> "str", v |-> cs]
List(xs) == [t |-> "list", v |-> xs]
Dict(f) == [t |-> "dict", v |-> f]

\* The dict with no key.
EmptyDict == [k \in {} |-> None]

\* d[k] = v on a dict (a function): the key is added or overwritten.
SetItem(d, k, v) == [x \in (DOMAIN d) \cup {k} |-> IF x = k THEN v ELSE d[x]]

\* An evaluation either returns a value or raises an exception; exc is str(e).
Return(v) == [ok |-> TRUE, v |-> v]
Raise(msg) == [ok |-> FALSE, exc |-> msg]

\* The text of a str (the concatenation of its characters).
RECURSIVE text(_)
text(cs) == IF cs = <<>> THEN "" ELSE Head(cs) \o text(Tail(cs))

\* type(x).__name__
type_name(x) ==
    CASE x.t = "null" -> "NoneType"
      [] x.t = "bool" -> "bool"
      [] x.t = "num" -> "int"
      [] x.t = "str" -> "str"
      [] x.t = "list" -> "list"
      [] x.t = "dict" -> "dict"

\* Python truthiness, as `if not is_ref` and `if total_credits` test it.
truthy(x) ==
    CASE x.t = "null" -> FALSE
      [] x.t = "bool" -> x.v
      [] x.t = "num" -> x.v # 0
      [] x.t = "str" -> x.v # <<>>
      [] x.t = "list" -> x.v # <<>>
      [] x.t = "dict" -> DOMAIN x.v # {}

\* The keys of a dict in some fixed order (every key of the calls below is a
\* str, and no result depends on which key comes first).
RECURSIVE keys_in_order(_)
keys_in_order(ks) ==
    IF ks = {} THEN <<>>
    ELSE LET k == CHOOSE x \in ks : TRUE
         IN <<Str(<<k>>)>> \o keys_in_order(ks \ {k})

\* `for m in x`: the elements the loop visits, or TypeError.
iterate(x) ==
    CASE x.t = "list" -> Return(x.v)
      [] x.t = "str" -> Return([i \in 1..Len(x.v) |-> Str(<<x.v[i]>>)])
      [] x.t = "dict" -> Return(keys_in_order(DOMAIN x.v))
      [] OTHER -> Raise("'" \o type_name(x) \o "' object is not iterable")

\* `m[key]` with a str key: the value, KeyError (whose str is repr(key)) or
\* TypeError.
getitem(m, key) ==
    CASE m.t = "dict" ->
            IF key \in DOMAIN m.v THEN Return(m.v[key])
            ELSE Raise("'" \o key \o "'")
      [] m.t = "str" -> Raise("string indices must be integers, not 'str'")
      [] m.t = "list" -> Raise("list indices must be integers or slices, not str")
      [] OTHER -> Raise("'" \o type_name(m) \o "' object is not subscriptable")

\* `m.get(key, default)`: a method of dict only.
get(m, key, default) ==
    IF m.t = "dict"
    THEN Return(IF key \in DOMAIN m.v THEN m.v[key] ELSE default)
    ELSE Raise("'" \o type_name(m) \o "' object has no attribute 'get'")

\* repr(x) of the values a grade can be.
repr(x) ==
    CASE x.t = "str" -> "'" \o text(x.v) \o "'"
      [] x.t = "null" -> "None"
      [] OTHER -> type_name(x)

Min(a, b) == IF a < b THEN a ELSE b

---------------------------------------------------------------------------
(* GPA calculation constants, src/app.py:171-174 *)

GRADE_POINTS ==
    (Str(<<"A">>) :> 5) @@ (Str(<<"B">>) :> 4) @@ (Str(<<"C">>) :> 3) @@
    (Str(<<"D">>) :> 2) @@ (Str(<<"E">>) :> 1) @@ (Str(<<"F">>) :> 0)

GRADE_ORDER ==
    <<Str(<<"A">>), Str(<<"B">>), Str(<<"C">>), Str(<<"D">>), Str(<<"E">>), Str(<<"F">>)>>

CREDIT == 3

\* list.index(x): the 0-based position of the first element equal to x, or
\* ValueError.
index(list, x) ==
    IF \E i \in 1..Len(list) : list[i] = x
    THEN Return((CHOOSE i \in 1..Len(list) :
                    list[i] = x /\ \A j \in 1..(i - 1) : list[j] # x) - 1)
    ELSE Raise(repr(x) \o " is not in list")

\* A plausible slip: the escalated index wraps around instead of being clamped.
apply_reference_wrap(grade, is_ref) ==
    IF ~truthy(is_ref) THEN Return(grade)
    ELSE LET idx == index(GRADE_ORDER, grade)
         IN IF ~idx.ok THEN idx
            ELSE Return(GRADE_ORDER[((idx.v + 1) % Len(GRADE_ORDER)) + 1])

\* apply_reference(grade, is_ref), src/app.py:176-181.  GRADE_ORDER is indexed
\* from 0 in the code and from 1 here.
apply_reference(grade, is_ref) ==
    IF ~truthy(is_ref) THEN Return(grade)
    ELSE LET idx == index(GRADE_ORDER, grade)
         IN IF ~idx.ok THEN idx
            ELSE LET new_idx == Min(idx.v + 1, Len(GRADE_ORDER) - 1)
                 IN Return(GRADE_ORDER[new_idx + 1])

---------------------------------------------------------------------------
(* Floats *)

\* n/d (d > 0, n >= 0) rounded to the nearest integer, an exact tie going to
\* the even neighbour.
RoundHalfEven(n, d) ==
    LET q == n \div d
        r == n % d
    IN IF 2 * r < d THEN q
       ELSE IF 2 * r > d THEN q + 1
       ELSE IF q % 2 = 0 THEN q ELSE q + 1

\* A plausible slip: the quotient is cut to 2 decimals instead of rounded.
round_quotient_truncated(num, den) == (100 * num) \div den

\* round(num / den, 2) for two non-negative integers held exactly (src/app.py:321),
\* in hundredths.  The float quotient x is the double nearest to num/den, and
\* round(x, 2) is the hundredth nearest to the exact value of x, an exact tie
\* going to the even hundredth.  For a list of fewer than 40 modules num/den
\* lies halfway between two hundredths only when it is an odd multiple of 1/8
\* (an odd multiple of 1/200 has the denominator 8, 40 or 200 in lowest
\* terms), and a double holds that exactly; any other quotient is at least
\* 1/(200 * den) away from a tie, far more than the error of the division.  So
\* the result is num/den rounded half-even.
round_quotient(num, den) == RoundHalfEven(100 * num, den)

Digits == <<"0", "1", "2", "3", "4", "5", "6", "7", "8", "9">>

\* str(n) of a non-negative integer.
RECURSIVE int_str(_)
int_str(n) == IF n < 10 THEN Digits[n + 1] ELSE int_str(n \div 10) \o Digits[(n % 10) + 1]

\* A plausible slip: the GPA is always printed with two decimals ("5.00").
float_str_2f(h) ==
    int_str(h \div 100) \o "." \o Digits[((h % 100) \div 10) + 1] \o Digits[(h % 10) + 1]

\* str(x) of the float h/100, as an f-string prints it: the shortest decimal
\* that reads back as the same double ("5.0", "2.5", "3.33").
float_str(h) ==
    int_str(h \div 100) \o "." \o
    (IF h % 10 = 0 THEN Digits[((h % 100) \div 10) + 1]
     ELSE Digits[((h % 100) \div 10) + 1] \o Digits[(h % 10) + 1])

---------------------------------------------------------------------------
(* Responses *)

Pending == [t |-> "pending"]
Response(status, json) == [t |-> "response", status |-> status, json |-> json]
Redirect(endpoint) == [t |-> "redirect", to |-> endpoint]

\* flash(message, category): the message is queued in session['_flashes'].
flash(sess, message, category) ==
    SetItem(sess, "_flashes",
            (IF "_flashes" \in DOMAIN sess THEN sess["_flashes"] ELSE <<>>)
                \o <<[category |-> category, message |-> message]>>)

\* login_required, src/app.py:162-169: `outcome` is what the wrapped handler
\* does, [session |-> ..., saved_records |-> ..., result |-> ...].
login_required(sess, db, outcome) ==
    IF "user_id" \notin DOMAIN sess
    THEN [session |-> flash(sess, "Please log in to access this page", "error"),
          saved_records |-> db,
          result |-> Redirect("welcome")]
    ELSE outcome

---------------------------------------------------------------------------
(* /calculate, src/app.py:285-352 *)

\* A plausible slip: the gate looks for F only.
RECURSIVE gate_loop_f_only(_, _)
gate_loop_f_only(items, i) ==
    IF i > Len(items) THEN [t |-> "fallthrough"]
    ELSE LET grade == getitem(items[i], "grade")
         IN IF ~grade.ok THEN [t |-> "raise", exc |-> grade.exc]
            ELSE IF grade.v = Str(<<"F">>)
                 THEN [t |-> "return"]
                 ELSE gate_loop_f_only(items, i + 1)

\* A plausible slip: the gate is applied to the grade after the reference
\* adjustment.
RECURSIVE gate_loop_adjusted(_, _)
gate_loop_adjusted(items, i) ==
    IF i > Len(items) THEN [t |-> "fallthrough"]
    ELSE LET grade == getitem(items[i], "grade")
             after == apply_reference(grade.v, get(items[i], "reference", Bool(FALSE)).v)
         IN IF ~grade.ok THEN [t |-> "raise", exc |-> grade.exc]
            ELSE IF ~after.ok THEN [t |-> "raise", exc |-> after.exc]
            ELSE IF after.v = Str(<<"E">>) \/ after.v = Str(<<"F">>)
                 THEN [t |-> "return"]
                 ELSE gate_loop_adjusted(items, i + 1)

\* The gate loop, lines 293-299, from element i on: "return" when an E or F
\* entry is met, "raise" when m['grade'] fails, "fallthrough" at the end.
RECURSIVE gate_loop(_, _)
gate_loop(items, i) ==
    IF i > Len(items) THEN [t |-> "fallthrough"]
    ELSE LET grade == getitem(items[i], "grade")
         IN IF ~grade.ok THEN [t |-> "raise", exc |-> grade.exc]
            ELSE IF grade.v = Str(<<"E">>) \/ grade.v = Str(<<"F">>)
                 THEN [t |-> "return"]
                 ELSE gate_loop(items, i + 1)

\* A plausible slip: the points of the submitted grade are used, not those of
\* the grade after the reference adjustment.
module_points_before(grade_before, grade_after) ==
    IF grade_before \in DOMAIN GRADE_POINTS
    THEN Return(GRADE_POINTS[grade_before])
    ELSE Raise(repr(grade_before))

\* A plausible slip: a grade that is not in the table counts for no points
\* (GRADE_POINTS.get(grade_after, 0.0)).
module_points_coerced(grade_before, grade_after) ==
    IF grade_after \in DOMAIN GRADE_POINTS
    THEN Return(GRADE_POINTS[grade_after])
    ELSE Return(0)

\* points = GRADE_POINTS[grade_after], line 308: KeyError for any other key.
module_points(grade_before, grade_after) ==
    IF grade_after \in DOMAIN GRADE_POINTS
    THEN Return(GRADE_POINTS[grade_after])
    ELSE Raise(repr(grade_after))

\* A plausible slip: the new entry is put in front of the list.
details_append_front(details, entry) == <<entry>> \o details

\* details.append(...), line 312.
details_append(details, entry) == Append(details, entry)

\* The entry appended to details, lines 312-319.  m is a dict here (m['grade']
\* succeeded), so m.get cannot fail.
detail_entry(m, grade_before, grade_after, points, reference) ==
    [label |-> get(m, "label", None).v,
     code |-> get(m, "code", Str(<<>>)).v,
     grade_before |-> grade_before,
     grade_after |-> grade_after,
     points |-> points,
     reference |-> reference]

\* The accumulation loop, lines 305-319, from element i on; acc holds
\* total_points, total_credits and details.  The body of the loop is split
\* at each statement that can raise: module_loop reads m['grade'] (306),
\* loop_reference reads the flag, loop_grade_after calls apply_reference (307),
\* loop_points looks the points up (308) and loop_accumulate adds them up and
\* appends the entry (309-319).
RECURSIVE module_loop(_, _, _)

loop_accumulate(items, i, acc, m, grade_before, is_ref, grade_after, points) ==
    IF ~points.ok THEN points
    ELSE module_loop(items, i + 1,
                     [total_points |-> acc.total_points + points.v * CREDIT,
                      total_credits |-> acc.total_credits + CREDIT,
                      details |-> details_append(acc.details,
                                     detail_entry(m, grade_before, grade_after,
                                                  points.v, is_ref))])

loop_points(items, i, acc, m, grade_before, is_ref, grade_after) ==
    IF ~grade_after.ok THEN grade_after
    ELSE loop_accumulate(items, i, acc, m, grade_before, is_ref, grade_after.v,
                         module_points(grade_before, grade_after.v))

loop_grade_after(items, i, acc, m, grade_before, is_ref) ==
    IF ~is_ref.ok THEN is_ref
    ELSE loop_points(items, i, acc, m, grade_before, is_ref.v,
                     apply_reference(grade_before, is_ref.v))

loop_reference(items, i, acc, m, grade_before) ==
    IF ~grade_before.ok THEN grade_before
    ELSE loop_grade_after(items, i, acc, m, grade_before.v,
                          get(m, "reference", Bool(FALSE)))

module_loop(items, i, acc) ==
    IF i > Len(items) THEN Return(acc)
    ELSE loop_reference(items, i, acc, items[i], getitem(items[i], "grade"))

\* A plausible slip: the lower bounds of the bands are exclusive.
calculate_status_exclusive(gpa) ==
    IF gpa > 400 THEN "Excellent Pass"
    ELSE IF gpa > 300 THEN "Pass"
    ELSE IF gpa > 270 THEN "Fail"
    ELSE "Withdrew"

\* The status bands of calculate, lines 323-330 (gpa in hundredths; the float
\* gpa and the literals 4.0, 3.0, 2.7 are the doubles nearest to these
\* decimals, so they compare as the decimals do).
calculate_status(gpa) ==
    IF gpa >= 400 THEN "Excellent Pass"
    ELSE IF gpa >= 300 THEN "Pass"
    ELSE IF gpa >= 270 THEN "Fail"
    ELSE "Withdrew"

\* The f-string of lines 337 and 345.
calculate_message(gpa, status) ==
    "Your semester GPA is " \o float_str(gpa) \o " --- " \o status \o "."

\* A plausible slip: the except clause drops the calculation held in the
\* session (session.pop('last_calculation', None)).
calculate_error_clears(sess, db, exc) ==
    [session |-> [k \in (DOMAIN sess) \ {"last_calculation"} |-> sess[k]],
     saved_records |-> db,
     result |-> Response(500, [blocked |-> TRUE,
                               message |-> "Calculation error: " \o exc])]

\* The except clause, lines 348-352.
calculate_error(sess, db, exc) ==
    [session |-> sess,
     saved_records |-> db,
     result |-> Response(500, [blocked |-> TRUE,
                               message |-> "Calculation error: " \o exc])]

\* The policy block, lines 295-299.
calculate_blocked(sess, db) ==
    [session |-> sess,
     saved_records |-> db,
     result |-> Response(400,
         [blocked |-> TRUE,
          reason |-> "E_or_F_present",
          message |-> "Calculation disabled: E or F present. Please contact your faculty."])]

\* A plausible slip: a calculation already held in the session is answered
\* again instead of the new one.
calculate_success_cached(sess, db, modules, details, gpa, status, message) ==
    IF "last_calculation" \in DOMAIN sess
    THEN [session |-> sess,
          saved_records |-> db,
          result |-> Response(200,
                              [blocked |-> FALSE,
                               gpa |-> sess["last_calculation"].gpa,
                               status |-> sess["last_calculation"].status,
                               details |-> sess["last_calculation"].details,
                               message |-> sess["last_calculation"].message])]
    ELSE [session |-> SetItem(sess, "last_calculation",
                              [gpa |-> gpa,
                               status |-> status,
                               modules |-> modules,
                               details |-> details,
                               message |-> message]),
          saved_records |-> db,
          result |-> Response(200,
                              [blocked |-> FALSE,
                               gpa |-> gpa,
                               status |-> status,
                               details |-> details,
                               message |-> message])]

\* A plausible slip: the session keeps the calculation it already holds
\* (session.setdefault('last_calculation', ...)).
calculate_success_setdefault(sess, db, modules, details, gpa, status, message) ==
    [session |-> IF "last_calculation" \in DOMAIN sess THEN sess
                 ELSE SetItem(sess, "last_calculation",
                              [gpa |-> gpa,
                               status |-> status,
                               modules |-> modules,
                               details |-> details,
                               message |-> message]),
     saved_records |-> db,
     result |-> Response(200,
                         [blocked |-> FALSE,
                          gpa |-> gpa,
                          status |-> status,
                          details |-> details,
                          message |-> message])]

\* Lines 332-346: the calculation is stored in the session and returned.
calculate_success(sess, db, modules, details, gpa, status, message) ==
    [session |-> SetItem(sess, "last_calculation",
                         [gpa |-> gpa,
                          status |-> status,
                          modules |-> modules,
                          details |-> details,
                          message |-> message]),
     saved_records |-> db,
     result |-> Response(200,
                         [blocked |-> FALSE,
                          gpa |-> gpa,
                          status |-> status,
                          details |-> details,
                          message |-> message])]

\* Lines 323-346, once the GPA is known.
calculate_classify(sess, db, modules, details, gpa, status) ==
    calculate_success(sess, db, modules, details, gpa, status,
                      calculate_message(gpa, status))

\* A plausible slip: the credits are not applied to the points (the sum of
\* the points is divided by the credits).
semester_gpa_unweighted(total_points, total_credits) ==
    IF total_credits # 0 THEN round_quotient(total_points \div CREDIT, total_credits) ELSE 0

\* A plausible slip: an empty list is given the GPA of its (absent) best grade.
semester_gpa_empty_full(total_points, total_credits) ==
    IF total_credits # 0 THEN round_quotient(total_points, total_credits) ELSE 500

\* A plausible slip: the points are divided by the credits of one module.
semester_gpa_single_credit(total_points, total_credits) ==
    IF total_credits # 0 THEN round_quotient(total_points, CREDIT) ELSE 0

\* Line 321: gpa = round(total_points / total_credits, 2) if total_credits
\* else 0.0.
semester_gpa(total_points, total_credits) ==
    IF total_credits # 0 THEN round_quotient(total_points, total_credits) ELSE 0

\* Lines 321-346, after the accumulation loop.
calculate_finish(sess, db, modules, loop, gpa) ==
    calculate_classify(sess, db, modules, loop.details, gpa, calculate_status(gpa))

\* Lines 301-346, after the gate loop fell through.
calculate_accumulated(sess, db, modules, loop) ==
    IF ~loop.ok THEN calculate_error(sess, db, loop.exc)
    ELSE calculate_finish(sess, db, modules, loop.v,
                          semester_gpa(loop.v.total_points, loop.v.total_credits))

\* Lines 293-346, once the gate loop has run.
calculate_gated(sess, db, modules, items, gate) ==
    IF gate.t = "raise" THEN calculate_error(sess, db, gate.exc)
    ELSE IF gate.t = "return" THEN calculate_blocked(sess, db)
    ELSE calculate_accumulated(sess, db, modules,
             module_loop(items, 1,
                         [total_points |-> 0, total_credits |-> 0, details |-> <<>>]))

\* Lines 293-346: `for m in modules` starts; both loops visit the same
\* elements.
calculate_iterate(sess, db, modules, items) ==
    IF ~items.ok THEN calculate_error(sess, db, items.exc)
    ELSE calculate_gated(sess, db, modules, items.v, gate_loop(items.v, 1))

\* Lines 290-346, once data.get('modules', []) has run.
calculate_modules(sess, db, modules) ==
    IF ~modules.ok THEN calculate_error(sess, db, modules.exc)
    ELSE calculate_iterate(sess, db, modules.v, iterate(modules.v))

\* The body of calculate, lines 288-352, for the JSON body `data` of the
\* request.
calculate_body(sess, db, data) ==
    calculate_modules(sess, db, get(data, "modules", List(<<>>)))

\* calculate as routed: login_required around the body.
calculate(sess, db, data) == login_required(sess, db, calculate_body(sess, db, data))

---------------------------------------------------------------------------
(* The double arithmetic of round((first_gpa + second_gpa) / 2, 2) *)

\* 2^n
RECURSIVE Pow2(_)
Pow2(n) == IF n = 0 THEN 1 ELSE 2 * Pow2(n - 1)

\* (a * 2^k) mod n, without forming a * 2^k.
RECURSIVE pow2_mod(_, _, _)
pow2_mod(a, k, n) == IF k = 0 THEN a % n ELSE (2 * pow2_mod(a, k - 1, n)) % n

\* floor(log2(num / den)) for num, den > 0.
RECURSIVE floor_log2(_, _)
floor_log2(num, den) ==
    IF num >= 2 * den THEN floor_log2(num, 2 * den) + 1
    ELSE IF num < den THEN floor_log2(2 * num, den) - 1
    ELSE 0

\* The double nearest to h/100 is m * 2^-k with 2^52 <= m <= 2^53.  Returned:
\* k; d = 100 * m - h * 2^k, the representation error in units of 2^-k / 100
\* (h * 2^k mod 100 is a multiple of 4, so never the tie 50); and m mod M.
double_of(h, M) ==
    IF h = 0 THEN [k |-> 59, d |-> 0, m |-> 0]
    ELSE LET k == 52 - floor_log2(h, 100)
             r == pow2_mod(h, k, 100)
             up == r > 50
             N == pow2_mod(h, k, 100 * M)
         IN [k |-> k,
             d |-> IF up THEN 100 - r ELSE 0 - r,
             m |-> ((N \div 100) + (IF up THEN 1 ELSE 0)) % M]

\* The error d and the mantissa m of a double_of record, scaled from units of
\* 2^-k to units of 2^-59.
scaled_error(x) == x.d * Pow2(59 - x.k)
scaled_mantissa(x) == x.m * Pow2(59 - x.k)

\* The result for the tie with the lower hundredth lo, given the error D of
\* the double against the tie: above, below, or exactly on it (half-even).
tie_result(lo, D) ==
    IF D > 0 THEN lo + 1
    ELSE IF D < 0 THEN lo
    ELSE IF lo % 2 = 0 THEN lo ELSE lo + 1

\* The rounding error of the addition, in units of 2^-59: the exact sum sm
\* (mod 2q) is rounded to a multiple of the quantum q of the sum's binade, a
\* tie going to the even multiple.
addition_error(sm, rem, q) ==
    IF 2 * rem < q THEN 0 - rem
    ELSE IF 2 * rem > q THEN q - rem
    ELSE IF sm < q THEN 0 - rem ELSE q - rem

round_tie_quantum(T, DAB, msum, q) ==
    tie_result((T - 1) \div 2,
               DAB + 100 * addition_error(msum % (2 * q), (msum % (2 * q)) % q, q))

\* The binary exponent of the sum a + b: that of T/100, one less when T/100
\* is a power of two and the sum falls below it.
sum_exponent(T, DAB, e0) ==
    IF (IF e0 >= 0 THEN T = 100 * Pow2(e0) ELSE T * Pow2(0 - e0) = 100) /\ DAB < 0
    THEN e0 - 1
    ELSE e0

round_tie(T, a, b) ==
    round_tie_quantum(T,
                      scaled_error(a) + scaled_error(b),
                      scaled_mantissa(a) + scaled_mantissa(b),
                      Pow2(59 - (52 - sum_exponent(T, scaled_error(a) + scaled_error(b),
                                                   floor_log2(T, 100)))))

\* A plausible slip: the sum is rounded and never halved.
round_mean_sum(A, B) == A + B

\* A plausible slip: the mean is rounded to 1 decimal, round(x, 1).
round_mean_one_decimal(A, B) == 10 * RoundHalfEven(A + B, 20)

\* round((a + b) / 2, 2), src/app.py:470, for the doubles a, b nearest to
\* A/100 and B/100, in hundredths.  When A + B is even the mean is a hundredth
\* and the result is that hundredth.  When A + B = T is odd the mean of the
\* decimals is a tie, and the result is decided by the sign of the error of
\* the double (a + b) / 2 against it: the two representation errors plus the
\* rounding error of the addition (the halving is exact), all in units of
\* 2^-59 / 100.  Only an error of exactly zero is resolved half-even.
round_mean(A, B) ==
    IF (A + B) % 2 = 0 THEN (A + B) \div 2
    ELSE round_tie(A + B, double_of(A, 4096), double_of(B, 4096))

---------------------------------------------------------------------------
(* The saved_records table, src/app.py:111-124 *)

\* json.dumps(value): the JSON text of the value.
json_dumps(value) == [t |-> "json", of |-> value]

\* The row that save_result inserts, lines 378-381, for the calculation held
\* in the session.  The gpa column is REAL: a GPA of at most three digits is
\* read back as the double nearest to the same decimal.
saved_record(id, user_id, title, semester, notes, calculation) ==
    [id |-> id,
     user_id |-> user_id,
     title |-> title,
     semester |-> semester,
     modules_json |-> json_dumps(calculation.modules),
     gpa |-> calculation.gpa,
     status |-> calculation.status,
     notes |-> notes]

\* execute_query, lines 53-94: the rows of the statement when the database
\* answers; when it does not (no connection, a failing statement) the
\* exception is raised again after the rollback.
execute_query(database, rows) ==
    IF database = "up" THEN Return(rows) ELSE Raise("database error")

\* A plausible slip in the query: the row is looked up by its id alone.
select_record_any_owner(db, id, user_id) ==
    SelectSeq(db, LAMBDA row : id.t = "num" /\ row.id = id.v)

\* SELECT * FROM saved_records WHERE id = %s AND user_id = %s (lines 459-460);
\* an id of None (NULL) matches no row.
select_record(db, id, user_id) ==
    SelectSeq(db, LAMBDA row : id.t = "num" /\ row.id = id.v /\ row.user_id = user_id)

---------------------------------------------------------------------------
(* /calculate-final-gpa, src/app.py:451-499 *)

\* A plausible slip: the lower bounds of the bands are exclusive.
final_status_exclusive(final_gpa) ==
    IF final_gpa > 400 THEN "Excellent Pass"
    ELSE IF final_gpa > 300 THEN "Pass"
    ELSE IF final_gpa > 270 THEN "Fail"
    ELSE "Withdrew"

\* The status bands of calculate_final_gpa, lines 472-479.
final_status(final_gpa) ==
    IF final_gpa >= 400 THEN "Excellent Pass"
    ELSE IF final_gpa >= 300 THEN "Pass"
    ELSE IF final_gpa >= 270 THEN "Fail"
    ELSE "Withdrew"

\* Lines 481-497: the final calculation is stored in the session and returned.
final_success(sess, db, first_semester, second_semester, final_gpa, status) ==
    [session |-> SetItem(sess, "final_calculation",
                         [first_semester |-> first_semester,
                          second_semester |-> second_semester,
                          first_gpa |-> first_semester.gpa,
                          second_gpa |-> second_semester.gpa,
                          final_gpa |-> final_gpa,
                          status |-> status]),
     saved_records |-> db,
     result |-> Response(200,
                         [success |-> TRUE,
                          first_gpa |-> first_semester.gpa,
                          second_gpa |-> second_semester.gpa,
                          final_gpa |-> final_gpa,
                          status |-> status,
                          message |-> "Final GPA: " \o float_str(final_gpa)
                                          \o " - " \o status])]

\* Lines 472-497, once final_gpa is known.
final_classify(sess, db, first_semester, second_semester, final_gpa) ==
    final_success(sess, db, first_semester, second_semester, final_gpa,
                  final_status(final_gpa))

\* The except clause, lines 498-499.
final_error(sess, db, exc) ==
    [session |-> sess,
     saved_records |-> db,
     result |-> Response(500, [success |-> FALSE,
                               message |-> "Error calculating final GPA: " \o exc])]

\* A plausible slip: only the first list is tested (`if not
\* first_semester_records:`), so a missing second record raises IndexError
\* at second_semester_records[0].
final_found_first_only(sess, db, first_semester_records, second_semester_records) ==
    IF first_semester_records = <<>>
    THEN [session |-> sess,
          saved_records |-> db,
          result |-> Response(400, [success |-> FALSE,
                                    message |-> "One or both semester records not found"])]
    ELSE IF second_semester_records = <<>>
         THEN final_error(sess, db, "list index out of range")
         ELSE final_classify(sess, db, first_semester_records[1], second_semester_records[1],
                             round_mean(first_semester_records[1].gpa,
                                        second_semester_records[1].gpa))

\* Lines 462-497, once the two queries have run.
final_found(sess, db, first_semester_records, second_semester_records) ==
    IF first_semester_records = <<>> \/ second_semester_records = <<>>
    THEN [session |-> sess,
          saved_records |-> db,
          result |-> Response(400, [success |-> FALSE,
                                    message |-> "One or both semester records not found"])]
    ELSE final_classify(sess, db, first_semester_records[1], second_semester_records[1],
                        round_mean(first_semester_records[1].gpa,
                                   second_semester_records[1].gpa))

\* Lines 459-497, once the two queries have returned or raised.
final_queried(sess, db, first_semester_records, second_semester_records) ==
    IF ~first_semester_records.ok THEN final_error(sess, db, first_semester_records.exc)
    ELSE IF ~second_semester_records.ok
         THEN final_error(sess, db, second_semester_records.exc)
         ELSE final_found(sess, db, first_semester_records.v, second_semester_records.v)

\* The body of calculate_final_gpa, lines 454-499, for the JSON body `data`
\* (a dict) and the state of the database.
calculate_final_gpa_body(sess, db, data, database) ==
    final_queried(sess, db,
        execute_query(database,
            select_record(db, get(data, "first_semester_id", None).v, sess["user_id"])),
        execute_query(database,
            select_record(db, get(data, "second_semester_id", None).v, sess["user_id"])))

\* calculate_final_gpa as routed.
calculate_final_gpa(sess, db, data, database) ==
    login_required(sess, db, calculate_final_gpa_body(sess, db, data, database))

---------------------------------------------------------------------------
(* /save-result, src/app.py:363-390 *)

\* A row of save_actions, lines 383-386.
save_action(user_id, action, details) ==
    [user_id |-> user_id, action |-> action, details |-> details]

\* The id a SERIAL column gives the next row; no row is deleted here.
next_id(db) == Len(db) + 1

\* A response of save_result that leaves the tables as they are.
save_result_refused(sess, db, actions, status, message) ==
    [session |-> sess,
     saved_records |-> db,
     save_actions |-> actions,
     result |-> Response(status, [success |-> FALSE, message |-> message])]

\* Lines 383-388, once the row is in saved_records (db holds it: the first
\* statement was committed by execute_query) and the second INSERT has
\* returned or raised.
save_result_logged(sess, db, actions, title, calculation, logged) ==
    IF ~logged.ok
    THEN save_result_refused(sess, db, actions, 500, "Error saving result: " \o logged.exc)
    ELSE [session |-> sess,
          saved_records |-> db,
          save_actions |->
              Append(actions,
                     save_action(sess["user_id"], "save_record",
                                 "Saved GPA record: " \o title \o " - GPA: "
                                     \o float_str(calculation.gpa))),
          result |-> Response(200, [success |-> TRUE,
                                    message |-> "Result saved successfully!"])]

\* The table after the INSERT of lines 378-381.
saved_row(db, user_id, title, semester, notes, calculation) ==
    Append(db, saved_record(next_id(db), user_id, title, semester, notes, calculation))

\* Lines 377-390, once the first INSERT has returned or raised.
save_result_inserted(sess, db, actions, title, semester, notes, database, inserted) ==
    IF ~inserted.ok
    THEN save_result_refused(sess, db, actions, 500, "Error saving result: " \o inserted.exc)
    ELSE save_result_logged(sess,
                            saved_row(db, sess["user_id"], title, semester, notes,
                                      sess["last_calculation"]),
                            actions, title, sess["last_calculation"],
                            execute_query(database[2], <<>>))

\* Lines 370-390, once the form has been read.
save_result_titled(sess, db, actions, title, semester, notes, database) ==
    IF ~truthy(title)
    THEN save_result_refused(sess, db, actions, 400, "Title is required")
    ELSE save_result_inserted(sess, db, actions, text(title.v), text(semester.v),
                              text(notes.v), database,
                              execute_query(database[1], <<>>))

\* The body of save_result, lines 366-390, for the form of the request and
\* the state of the database at the first and at the second INSERT.  A
\* calculation in the session is a dict of five keys, so `not calculation`
\* holds only when there is none.
save_result_body(sess, db, actions, form, database) ==
    IF "last_calculation" \notin DOMAIN sess
    THEN save_result_refused(sess, db, actions, 400, "No calculation to save")
    ELSE save_result_titled(sess, db, actions,
                            get(form, "title", None).v,
                            get(form, "semester", Str(<<>>)).v,
                            get(form, "notes", Str(<<>>)).v,
                            database)

\* save_result as routed.
save_result(sess, db, actions, form, database) ==
    IF "user_id" \notin DOMAIN sess
    THEN [session |-> login_required(sess, db, None).session,
          saved_records |-> db,
          save_actions |-> actions,
          result |-> login_required(sess, db, None).result]
    ELSE save_result_body(sess, db, actions, form, database)

---------------------------------------------------------------------------
(* /login and /logout, src/app.py:188-209 and 608-612 *)

\* generate_password_hash(password), and check_password_hash(hash, password):
\* true for the password the hash was made of; a password of None raises.
password_hash_of(password) == [hash_of |-> password]

check_password_hash(hash, password) ==
    IF password.t # "str" THEN Raise("'NoneType' object has no attribute 'encode'")
    ELSE Return(hash = password_hash_of(password))

\* The users table, lines 100-109: two students have signed up.
Users ==
    <<[id |-> 1, student_id |-> Str(<<"S", "1">>), name |-> "N1",
       password_hash |-> password_hash_of(Str(<<"p", "1">>))],
      [id |-> 2, student_id |-> Str(<<"S", "2">>), name |-> "N2",
       password_hash |-> password_hash_of(Str(<<"p", "2">>))]>>

\* A response of login with a flashed message.
login_answer(sess, message, category, endpoint) ==
    [session |-> flash(sess, message, category), result |-> Redirect(endpoint)]

\* Lines 197-202: the three keys are set in the session as it is.
login_success(sess, user) ==
    login_answer(SetItem(SetItem(SetItem(sess, "user_id", user.id),
                                 "student_id", text(user.student_id.v)),
                         "student_name", user.name),
                 "Login successful!", "success", "dashboard")

\* Lines 196-205, once the password has been checked or the check has raised.
login_checked(sess, user, checked) ==
    IF ~checked.ok
    THEN login_answer(sess, "Database error during login: " \o checked.exc, "error", "welcome")
    ELSE IF checked.v THEN login_success(sess, user)
    ELSE login_answer(sess, "Invalid student ID or password", "error", "welcome")

\* Lines 195-209, once the query has returned or raised.
login_queried(sess, password, users) ==
    IF ~users.ok
    THEN login_answer(sess, "Database error during login: " \o users.exc, "error", "welcome")
    ELSE IF users.v = <<>>
         THEN login_answer(sess, "Invalid student ID or password", "error", "welcome")
         ELSE login_checked(sess, users.v[1],
                            check_password_hash(users.v[1].password_hash, password))

\* login, lines 188-209, for the form of the request.
login(sess, form, database) ==
    login_queried(sess, get(form, "password", None).v,
                  execute_query(database,
                      SelectSeq(Users, LAMBDA user :
                          user.student_id = get(form, "student_id", None).v)))

\* A plausible slip: logout removes the keys that login set
\* (session.pop('user_id', None), ...) in place of session.clear().
logout_pops_user(sess) ==
    [session |-> flash([k \in (DOMAIN sess) \ {"user_id", "student_id", "student_name"}
                           |-> sess[k]],
                       "Logged out successfully", "success"),
     result |-> Redirect("welcome")]

\* A plausible slip: logout flashes and redirects without session.clear().
logout_keeps_session(sess) ==
    [session |-> flash(sess, "Logged out successfully", "success"),
     result |-> Redirect("welcome")]

\* logout, lines 608-612.
logout(sess) ==
    [session |-> flash(EmptyDict, "Logged out successfully", "success"),
     result |-> Redirect("welcome")]

---------------------------------------------------------------------------
(* /delete-record/<int:record_id>, src/app.py:418-439 *)

\* Every path of delete_record flashes a message and redirects to the list.
delete_record_answer(sess, db, actions, message, category) ==
    [session |-> flash(sess, message, category),
     saved_records |-> db,
     save_actions |-> actions,
     result |-> Redirect("saved_records")]

\* DELETE FROM saved_records WHERE id = %s, line 433.
delete_row(db, record_id) == SelectSeq(db, LAMBDA row : row.id # record_id.v)

\* Lines 433-439, once the DELETE has returned or raised; the row of
\* save_actions is committed already.
delete_record_deleted(sess, db, actions, record_id, deleted) ==
    IF ~deleted.ok
    THEN delete_record_answer(sess, db, actions, "Error deleting record", "error")
    ELSE delete_record_answer(sess, delete_row(db, record_id), actions,
                              "Record deleted successfully", "success")

\* The row of save_actions that lines 429-432 insert.
delete_action(sess, record) ==
    save_action(sess["user_id"], "delete_record",
                "Deleted GPA record: " \o record.title \o " - GPA: "
                    \o float_str(record.gpa))

\* Lines 428-439, once the INSERT into save_actions has returned or raised.
delete_record_logged(sess, db, actions, record_id, record, database, logged) ==
    IF ~logged.ok
    THEN delete_record_answer(sess, db, actions, "Error deleting record", "error")
    ELSE delete_record_deleted(sess, db,
             Append(actions, delete_action(sess, record)),
             record_id, execute_query(database[3], <<>>))

\* Lines 423-439, once the SELECT has returned or raised.
delete_record_selected(sess, db, actions, record_id, database, records) ==
    IF ~records.ok
    THEN delete_record_answer(sess, db, actions, "Error deleting record", "error")
    ELSE IF records.v = <<>>
         THEN delete_record_answer(sess, db, actions, "Record not found", "error")
         ELSE delete_record_logged(sess, db, actions, record_id, records.v[1], database,
                                   execute_query(database[2], <<>>))

\* delete_record as routed, for the id of the URL and the state of the
\* database at its three statements.
delete_record(sess, db, actions, record_id, database) ==
    IF "user_id" \notin DOMAIN sess
    THEN [session |-> login_required(sess, db, None).session,
          saved_records |-> db,
          save_actions |-> actions,
          result |-> login_required(sess, db, None).result]
    ELSE delete_record_selected(sess, db, actions, record_id, database,
             execute_query(database[1], select_record(db, record_id, sess["user_id"])))

---------------------------------------------------------------------------
(* /save-final-gpa, src/app.py:501-527 *)

\* The row of final_gpa_records that lines 515-518 insert.
final_gpa_record(id, user_id, title, notes, calculation) ==
    [id |-> id,
     user_id |-> user_id,
     title |-> title,
     first_semester_gpa |-> calculation.first_gpa,
     second_semester_gpa |-> calculation.second_gpa,
     final_gpa |-> calculation.final_gpa,
     status |-> calculation.status,
     notes |-> notes]

\* A response of save_final_gpa that leaves the tables as they are.
save_final_gpa_refused(sess, finals, actions, status, message) ==
    [session |-> sess,
     final_gpa_records |-> finals,
     save_actions |-> actions,
     result |-> Response(status, [success |-> FALSE, message |-> message])]

\* Lines 520-525, once the row is in final_gpa_records and the second INSERT
\* has returned or raised.
save_final_gpa_logged(sess, finals, actions, title, calculation, logged) ==
    IF ~logged.ok
    THEN save_final_gpa_refused(sess, finals, actions, 500,
                                "Error saving final GPA: " \o logged.exc)
    ELSE [session |-> sess,
          final_gpa_records |-> finals,
          save_actions |->
              Append(actions,
                     save_action(sess["user_id"], "save_final_gpa",
                                 "Saved Final GPA: " \o title \o " - GPA: "
                                     \o float_str(calculation.final_gpa))),
          result |-> Response(200, [success |-> TRUE,
                                    message |-> "Final GPA saved successfully!"])]

\* Lines 514-527, once the first INSERT has returned or raised.
save_final_gpa_inserted(sess, finals, actions, title, notes, database, inserted) ==
    IF ~inserted.ok
    THEN save_final_gpa_refused(sess, finals, actions, 500,
                                "Error saving final GPA: " \o inserted.exc)
    ELSE save_final_gpa_logged(sess,
             Append(finals, final_gpa_record(next_id(finals), sess["user_id"], title, notes,
                                             sess["final_calculation"])),
             actions, title, sess["final_calculation"],
             execute_query(database[2], <<>>))

\* Lines 508-527, once the form has been read.
save_final_gpa_titled(sess, finals, actions, title, notes, database) ==
    IF ~truthy(title)
    THEN save_final_gpa_refused(sess, finals, actions, 400, "Title is required")
    ELSE save_final_gpa_inserted(sess, finals, actions, text(title.v), text(notes.v),
                                 database, execute_query(database[1], <<>>))

\* save_final_gpa as routed.
save_final_gpa(sess, finals, actions, form, database) ==
    IF "user_id" \notin DOMAIN sess
    THEN [session |-> login_required(sess, finals, None).session,
          final_gpa_records |-> finals,
          save_actions |-> actions,
          result |-> login_required(sess, finals, None).result]
    ELSE IF "final_calculation" \notin DOMAIN sess
         THEN save_final_gpa_refused(sess, finals, actions, 400, "No calculation to save")
         ELSE save_final_gpa_titled(sess, finals, actions,
                                    get(form, "title", None).v,
                                    get(form, "notes", Str(<<>>)).v,
                                    database)

---------------------------------------------------------------------------
(* Bounds and the calls that are made *)

\* The longest module list submitted to /calculate.
MaxModules == 2

\* The longest module list behind a row of saved_records.
MaxSavedModules == 5

\* The longest list of modules that all have the same grade.
MaxUniform == 6

\* The session after a successful login of user `id`, src/app.py:198-200.
login_session(id) ==
    [user_id |-> id, student_id |-> "S" \o int_str(id), student_name |-> "N" \o int_str(id)]

GradeLetters == {"A", "B", "C", "D", "E", "F"}

\* The grades submitted: the six letters and one value outside them.
SubmittedGrades == {Str(<<g>>) : g \in GradeLetters \cup {"Z"}}

\* The fields of a module entry other than grade and reference, each set of
\* optional keys a dict.
EntryExtras == {[label |-> Str(<<"M">>)], [code |-> Str(<<"X">>)]}

\* d with the keys of e added.
Merge(d, e) == [k \in (DOMAIN d) \cup (DOMAIN e) |-> IF k \in DOMAIN e THEN e[k] ELSE d[k]]

GradeParts == {EmptyDict} \cup {[grade |-> g] : g \in SubmittedGrades}
ReferenceParts == {EmptyDict} \cup {[reference |-> Bool(b)] : b \in BOOLEAN}

\* The elements of a submitted list: module objects with or without a grade
\* and a reference flag, and a bare string in place of an object.
Entries ==
    {Dict(Merge(Merge(g, r), x)) : g \in GradeParts, r \in ReferenceParts, x \in EntryExtras}
        \cup {Str(<<"A">>)}

\* All sequences over S of length at most n.
SeqsUpTo(S, n) == UNION {[1..k -> S] : k \in 0..n}

\* The values sent as `modules` that are not lists.
NonLists ==
    {None, Num(0), Num(7), Bool(TRUE), Str(<<>>), Str(<<"A", "B">>),
     Dict(EmptyDict), Dict([grade |-> Str(<<"A">>)])}


\* The module with the given points (5..1): grade A..D, or D sat as a
\* reference for 1 point.
module_with_points(p) ==
    IF p = 1 THEN Dict([grade |-> Str(<<"D">>), reference |-> Bool(TRUE)])
    ELSE Dict([grade |-> GRADE_ORDER[6 - p]])

\* A list of n modules whose points add up to S (n <= S <= 5n).
RECURSIVE modules_with_sum(_, _)
modules_with_sum(n, S) ==
    IF n = 0 THEN <<>>
    ELSE LET p == Min(5, S - (n - 1))
         IN <<module_with_points(p)>> \o modules_with_sum(n - 1, S - p)

\* The pairs (n, S) of a length n <= MaxSavedModules and a sum of points S
\* that n modules can have.
SavedShapes ==
    {q \in (0..MaxSavedModules) \X (0..(5 * MaxSavedModules)) :
        q[1] <= q[2] /\ q[2] <= 5 * q[1]}

\* The lists of one to MaxUniform modules that all have the same grade and
\* are no reference.
UniformLists ==
    {[i \in 1..n |-> Dict([grade |-> Str(<<g>>), reference |-> Bool(FALSE)])] :
        n \in 1..MaxUniform, g \in GradeLetters}

\* The shortest lists whose mean lies halfway between two hundredths: eight
\* modules with an odd sum of points (S/8 = (25 * S)/200).
TieShapes == {q \in {8} \X (8..40) : q[2] % 2 = 1}

\* The JSON bodies sent to /calculate: every list of at most MaxModules
\* elements under `modules`, one list of each saved shape and of each tie
\* shape, the uniform lists, no `modules` key, a value that is no list, and a
\* body that is no object.
CalculateBodies ==
    {Dict([modules |-> List(xs)]) : xs \in SeqsUpTo(Entries, MaxModules)}
        \cup {Dict([modules |-> List(modules_with_sum(p[1], p[2]))]) :
                  p \in SavedShapes \cup TieShapes}
        \cup {Dict([modules |-> List(xs)]) : xs \in UniformLists}
        \cup {Dict(EmptyDict), None}
        \cup {Dict([modules |-> x]) : x \in NonLists}

\* The calculation /calculate leaves in the session of user 1 for a list, None
\* when it leaves none.
calculation_of(modules) ==
    LET after == calculate_body(login_session(1), <<>>,
                                Dict([modules |-> List(modules)])).session
    IN IF "last_calculation" \in DOMAIN after THEN after["last_calculation"] ELSE None

\* The calculations of the lists of at most MaxSavedModules modules.
ShapeCalculations ==
    {calculation_of(modules_with_sum(p[1], p[2])) : p \in SavedShapes} \ {None}

\* The GPAs of these calculations.
SavedGpas == {c.gpa : c \in ShapeCalculations}

\* One saved calculation for each of these GPAs.
SavedCalculations ==
    {CHOOSE c \in ShapeCalculations : c.gpa = g : g \in SavedGpas}

\* The ids sent to /calculate-final-gpa: the two rows and an id of no row.
SemesterIds == {Num(1), Num(2), Num(3)}

---------------------------------------------------------------------------
(* Initial states: one call in flight *)

\* apply_reference is called with a grade and a flag.
InitApplyReference ==
    /\ call \in {[fn |-> "apply_reference", grade |-> g, is_ref |-> r] :
                    g \in SubmittedGrades, r \in {Bool(TRUE), Bool(FALSE)}}
    /\ session = EmptyDict
    /\ saved_records = <<>>
    /\ result = Pending

\* The session of user 2 after set_modules, a /calculate of one module of
\* grade C and a /calculate-final-gpa over two rows of that calculation.
busy_session ==
    LET calculation == calculation_of(<<Dict([grade |-> Str(<<"C">>)])>>)
        rows == <<saved_record(1, 2, "T1", "", "", calculation),
                  saved_record(2, 2, "T2", "", "", calculation)>>
        held == SetItem(SetItem(login_session(2), "num_modules", 3),
                        "last_calculation", calculation)
    IN calculate_final_gpa_body(held, rows,
           Dict([first_semester_id |-> Num(1), second_semester_id |-> Num(2)]),
           "up").session

\* /calculate is requested by a browser that is not logged in, that has just
\* logged in, that holds an earlier calculation, or that holds all the
\* session keys of another user.
InitCalculate ==
    /\ call \in {[fn |-> "calculate", json |-> b] : b \in CalculateBodies}
    /\ session \in {EmptyDict,
                    login_session(1),
                    SetItem(login_session(1), "last_calculation",
                            calculation_of(<<Dict([grade |-> Str(<<"B">>)])>>)),
                    busy_session}
    /\ saved_records = <<>>
    /\ result = Pending

\* The bodies sent to /calculate-final-gpa: two ids, or one id only.
FinalBodies ==
    {Dict([first_semester_id |-> i, second_semester_id |-> j]) :
        i \in SemesterIds, j \in SemesterIds}
        \cup {Dict([first_semester_id |-> Num(1)]), Dict([second_semester_id |-> Num(1)])}

\* The session of user 1 that holds a final calculation.
final_session ==
    SetItem(login_session(1), "final_calculation", busy_session["final_calculation"])

\* /calculate-final-gpa is requested with two saved rows in the table, the
\* first of user 1 and the second of user 1 or 2.
InitCalculateFinalGpa ==
    /\ call \in {[fn |-> "calculate_final_gpa",
                  json |-> Dict([first_semester_id |-> i, second_semester_id |-> j]),
                  database |-> "up"] :
                    i \in SemesterIds, j \in SemesterIds}
    /\ session \in {EmptyDict, login_session(1)}
    /\ \E c1 \in SavedCalculations, c2 \in SavedCalculations, owner \in {1, 2} :
          saved_records = <<saved_record(1, 1, "T1", "", "", c1),
                            saved_record(2, owner, "T2", "", "", c2)>>
    /\ result = Pending

\* /calculate-final-gpa is requested with one id or two, while the database
\* answers or does not, from a session that holds no final calculation or an
\* earlier one; the two rows are of one module of grade A or C.
InitFinalLookup ==
    /\ call \in {[fn |-> "calculate_final_gpa", json |-> b, database |-> d] :
                    b \in FinalBodies, d \in {"up", "down"}}
    /\ session \in {login_session(1), final_session}
    /\ \E g1 \in {"A", "C"}, g2 \in {"A", "C"}, owner \in {1, 2} :
          saved_records =
              <<saved_record(1, 1, "T1", "", "",
                             calculation_of(<<Dict([grade |-> Str(<<g1>>)])>>)),
                saved_record(2, owner, "T2", "", "",
                             calculation_of(<<Dict([grade |-> Str(<<g2>>)])>>))>>
    /\ result = Pending

\* One call is in flight; nothing has been saved or logged and no other
\* browser takes part.
Init ==
    /\ InitApplyReference \/ InitCalculate \/ InitCalculateFinalGpa \/ InitFinalLookup
    /\ save_actions = <<>>
    /\ last_success = None
    /\ cookies = <<>>
    /\ requests = <<>>
    /\ final_gpa_records = <<>>

---------------------------------------------------------------------------
(* Actions: the call in flight runs *)

ApplyReference ==
    /\ result = Pending
    /\ call.fn = "apply_reference"
    /\ result' = [t |-> "returned", value |-> apply_reference(call.grade, call.is_ref)]
    /\ UNCHANGED <<session, saved_records, call>>
    /\ UNCHANGED <<save_actions, last_success, cookies, requests, final_gpa_records>>

Calculate ==
    /\ result = Pending
    /\ call.fn = "calculate"
    /\ LET out == calculate(session, saved_records, call.json)
       IN /\ session' = out.session
          /\ saved_records' = out.saved_records
          /\ result' = out.result
    /\ UNCHANGED call
    /\ UNCHANGED <<save_actions, last_success, cookies, requests, final_gpa_records>>

CalculateFinalGpa ==
    /\ result = Pending
    /\ call.fn = "calculate_final_gpa"
    /\ LET out == calculate_final_gpa(session, saved_records, call.json, call.database)
       IN /\ session' = out.session
          /\ saved_records' = out.saved_records
          /\ result' = out.result
    /\ UNCHANGED call
    /\ UNCHANGED <<save_actions, last_success, cookies, requests, final_gpa_records>>

Next == ApplyReference \/ Calculate \/ CalculateFinalGpa

Spec == Init /\ [][Next]_vars

---------------------------------------------------------------------------
(* SpecSession: the /calculate and /save-result requests of one browser *)

\* The most rows saved_records holds.
MaxSaves == 2

\* The bodies sent to /calculate: lists that succeed with different GPAs, a
\* list that is blocked, a list that is refused at its second module, and no
\* list.
SessionBodies ==
    {Dict([modules |-> List(<<Dict([grade |-> Str(<<"A">>)])>>)]),
     Dict([modules |-> List(<<Dict([grade |-> Str(<<"B">>)]),
                              Dict([grade |-> Str(<<"D">>), reference |-> Bool(TRUE)])>>)]),
     Dict([modules |-> List(<<>>)]),
     Dict([modules |-> List(<<Dict([grade |-> Str(<<"A">>)]),
                              Dict([grade |-> Str(<<"E">>)])>>)]),
     Dict([modules |-> List(<<Dict([grade |-> Str(<<"A">>)]),
                              Dict([grade |-> Str(<<"Z">>)])>>)]),
     Dict([modules |-> Num(7)])}

\* The forms sent to /save-result: with a title, with every field, without
\* a title and with an empty one.
SaveForms ==
    {Dict([title |-> Str(<<"T">>)]),
     Dict([title |-> Str(<<"U">>), semester |-> Str(<<"1">>), notes |-> Str(<<"n">>)]),
     Dict(EmptyDict),
     Dict([title |-> Str(<<>>)])}

\* The database at the first and at the second INSERT of a request.
DatabaseStates == {<<"up", "up">>, <<"up", "down">>, <<"down", "down">>}

\* What a /calculate request was sent and answered, when it succeeded.
success_of(data, response) ==
    [modules |-> get(data, "modules", List(<<>>)).v,
     gpa |-> response.json.gpa,
     status |-> response.json.status]

\* The browser has logged in as user 1 or 2; nothing is saved yet.
InitSession ==
    /\ session \in {login_session(1), login_session(2)}
    /\ saved_records = <<>>
    /\ save_actions = <<>>
    /\ call = [fn |-> "login"]
    /\ result = Redirect("dashboard")
    /\ last_success = None
    /\ cookies = <<>>
    /\ requests = <<>>
    /\ final_gpa_records = <<>>

\* The browser posts a body to /calculate and is answered.
SessionCalculate ==
    \E data \in SessionBodies :
        LET out == calculate(session, saved_records, data)
        IN /\ call' = [fn |-> "calculate", json |-> data]
           /\ session' = out.session
           /\ saved_records' = out.saved_records
           /\ result' = out.result
           /\ last_success' =
                  IF out.result.t = "response" /\ out.result.status = 200
                  THEN success_of(data, out.result)
                  ELSE last_success
           /\ UNCHANGED <<save_actions, cookies, requests, final_gpa_records>>

\* The browser posts a form to /save-result and is answered.
SessionSaveResult ==
    /\ Len(saved_records) < MaxSaves
    /\ \E form \in SaveForms, database \in DatabaseStates :
          LET out == save_result(session, saved_records, save_actions, form, database)
          IN /\ call' = [fn |-> "save_result", form |-> form, database |-> database]
             /\ session' = out.session
             /\ saved_records' = out.saved_records
             /\ save_actions' = out.save_actions
             /\ result' = out.result
             /\ UNCHANGED <<last_success, cookies, requests, final_gpa_records>>

NextSession == SessionCalculate \/ SessionSaveResult

SpecSession == InitSession /\ [][NextSession]_vars

---------------------------------------------------------------------------
(* SpecConcurrent: the /calculate requests of two browsers, interleaved *)

\* flask.session is kept in a signed cookie (app.secret_key, src/app.py:8):
\* the session a request sees is read from the cookie its browser sent, and
\* the session it leaves is written to that browser with the response.
Browsers == {1, 2}

\* The session of a request of browser b.
open_session(jar, b) == jar[b]

\* A plausible slip: the server keeps one session for every browser (a
\* module-level dict in place of flask.session).
save_session_shared(jar, b, sess) == [c \in DOMAIN jar |-> sess]

\* The cookies once the response to browser b carries the session.
save_session(jar, b, sess) == [jar EXCEPT ![b] = sess]

\* The bodies the two browsers send: two lists that succeed, one that is
\* blocked and one that is refused at its second module.
ConcurrentBodies ==
    {Dict([modules |-> List(<<Dict([grade |-> Str(<<"A">>)])>>)]),
     Dict([modules |-> List(<<Dict([grade |-> Str(<<"B">>)]),
                              Dict([grade |-> Str(<<"D">>), reference |-> Bool(TRUE)])>>)]),
     Dict([modules |-> List(<<Dict([grade |-> Str(<<"A">>)]),
                              Dict([grade |-> Str(<<"E">>)])>>)]),
     Dict([modules |-> List(<<Dict([grade |-> Str(<<"A">>)]),
                              Dict([grade |-> Str(<<"Z">>)])>>)])}

\* Browser b is logged in as user b and holds no calculation or the
\* calculation of one module of grade C; no request has been sent.
InitConcurrent ==
    /\ cookies \in [Browsers ->
                      {login_session(1), login_session(2),
                       SetItem(login_session(1), "last_calculation",
                               calculation_of(<<Dict([grade |-> Str(<<"C">>)])>>)),
                       SetItem(login_session(2), "last_calculation",
                               calculation_of(<<Dict([grade |-> Str(<<"C">>)])>>))}]
    /\ \A b \in Browsers : cookies[b]["user_id"] = b
    /\ requests = [b \in Browsers |-> [pc |-> "idle"]]
    /\ session = EmptyDict
    /\ saved_records = <<>>
    /\ save_actions = <<>>
    /\ call = [fn |-> "none"]
    /\ result = Pending
    /\ last_success = None
    /\ final_gpa_records = <<>>

\* The server receives a /calculate request of browser b, with the cookie
\* the browser holds, and opens its session.
Receive(b) ==
    /\ requests[b].pc \in {"idle", "answered"}
    /\ \E data \in ConcurrentBodies :
          requests' = [requests EXCEPT ![b] =
                          [pc |-> "received",
                           json |-> data,
                           sent |-> cookies[b],
                           session |-> open_session(cookies, b)]]
    /\ UNCHANGED <<cookies, session, saved_records, call, result, save_actions,
                   last_success, final_gpa_records>>

\* The handler runs on the session of the request.
Handle(b) ==
    /\ requests[b].pc = "received"
    /\ LET out == calculate(requests[b].session, saved_records, requests[b].json)
       IN /\ requests' = [requests EXCEPT ![b] =
                              [pc |-> "handled",
                               json |-> requests[b].json,
                               sent |-> requests[b].sent,
                               session |-> out.session,
                               result |-> out.result]]
          /\ saved_records' = out.saved_records
    /\ UNCHANGED <<cookies, session, call, result, save_actions, last_success,
                   final_gpa_records>>

\* The response is sent, and with it the session of the request.
Respond(b) ==
    /\ requests[b].pc = "handled"
    /\ cookies' = save_session(cookies, b, requests[b].session)
    /\ requests' = [requests EXCEPT ![b] =
                        [pc |-> "answered",
                         json |-> requests[b].json,
                         sent |-> requests[b].sent,
                         result |-> requests[b].result]]
    /\ UNCHANGED <<session, saved_records, call, result, save_actions, last_success,
                   final_gpa_records>>

NextConcurrent == \E b \in Browsers : Receive(b) \/ Handle(b) \/ Respond(b)

SpecConcurrent == InitConcurrent /\ [][NextConcurrent]_vars

---------------------------------------------------------------------------
(* SpecAccount: one browser logs in and out, calculates and saves *)

\* The most rows final_gpa_records holds.
MaxFinals == 1

\* The most messages that wait in session['_flashes'].
MaxFlashes == 2

\* session.get('_flashes', [])
Flashes(s) == IF "_flashes" \in DOMAIN s THEN s["_flashes"] ELSE <<>>

\* The forms sent to /login: the two students and a wrong password.
LoginForms ==
    {Dict([student_id |-> Str(<<"S", "1">>), password |-> Str(<<"p", "1">>)]),
     Dict([student_id |-> Str(<<"S", "2">>), password |-> Str(<<"p", "2">>)]),
     Dict([student_id |-> Str(<<"S", "1">>), password |-> Str(<<"p", "2">>)])}

\* The bodies sent to /calculate: a list that succeeds and one that is
\* blocked.
AccountBodies ==
    {Dict([modules |-> List(<<Dict([grade |-> Str(<<"A">>)])>>)]),
     Dict([modules |-> List(<<Dict([grade |-> Str(<<"F">>)])>>)])}

\* The forms sent to /save-result and /save-final-gpa: with a title, without
\* one and with an empty one.
AccountForms ==
    {Dict([title |-> Str(<<"T">>)]), Dict(EmptyDict), Dict([title |-> Str(<<>>)])}

\* The bodies sent to /calculate-final-gpa.
AccountFinalBodies ==
    {Dict([first_semester_id |-> Num(1), second_semester_id |-> Num(1)]),
     Dict([first_semester_id |-> Num(1), second_semester_id |-> Num(2)])}

\* What a /calculate request of a logged-in user was sent and answered, when
\* it succeeded, and who was logged in.
success_by(user_id, data, response) ==
    [user_id |-> user_id,
     modules |-> get(data, "modules", List(<<>>)).v,
     gpa |-> response.json.gpa,
     status |-> response.json.status]

\* The browser holds no session or has logged in as user 1; the tables are
\* empty.
InitAccount ==
    /\ session \in {EmptyDict, login_session(1)}
    /\ saved_records = <<>>
    /\ save_actions = <<>>
    /\ final_gpa_records = <<>>
    /\ call = [fn |-> "welcome"]
    /\ result = Pending
    /\ last_success = None
    /\ cookies = <<>>
    /\ requests = <<>>

\* The browser posts a form to /login.
AccountLogin ==
    \E form \in LoginForms :
        LET out == login(session, form, "up")
        IN /\ Len(Flashes(out.session)) <= MaxFlashes
           /\ call' = [fn |-> "login", form |-> form]
           /\ session' = out.session
           /\ result' = out.result
           /\ UNCHANGED <<saved_records, save_actions, final_gpa_records, last_success,
                          cookies, requests>>

\* The browser requests /logout.
AccountLogout ==
    LET out == logout(session)
    IN /\ Len(Flashes(out.session)) <= MaxFlashes
       /\ call' = [fn |-> "logout"]
       /\ session' = out.session
       /\ result' = out.result
       /\ last_success' = None
       /\ UNCHANGED <<saved_records, save_actions, final_gpa_records, cookies, requests>>

\* The browser posts a body to /calculate.
AccountCalculate ==
    \E data \in AccountBodies :
        LET out == calculate(session, saved_records, data)
        IN /\ Len(Flashes(out.session)) <= MaxFlashes
           /\ call' = [fn |-> "calculate", json |-> data]
           /\ session' = out.session
           /\ saved_records' = out.saved_records
           /\ result' = out.result
           /\ last_success' =
                  IF out.result.t = "response" /\ out.result.status = 200
                  THEN success_by(session["user_id"], data, out.result)
                  ELSE last_success
           /\ UNCHANGED <<save_actions, final_gpa_records, cookies, requests>>

\* The browser posts a form to /save-result.
AccountSaveResult ==
    /\ Len(saved_records) < MaxSaves
    /\ \E form \in AccountForms :
          LET out == save_result(session, saved_records, save_actions, form, <<"up", "up">>)
          IN /\ Len(Flashes(out.session)) <= MaxFlashes
             /\ call' = [fn |-> "save_result", form |-> form]
             /\ session' = out.session
             /\ saved_records' = out.saved_records
             /\ save_actions' = out.save_actions
             /\ result' = out.result
             /\ UNCHANGED <<final_gpa_records, last_success, cookies, requests>>

\* The browser posts to /delete-record/1 while it is logged out (the deletes
\* of logged-in users are the requests of SpecOwnership).
AccountDeleteRecord ==
    /\ "user_id" \notin DOMAIN session
    /\ LET out == delete_record(session, saved_records, save_actions, Num(1),
                                <<"up", "up", "up">>)
       IN /\ Len(Flashes(out.session)) <= MaxFlashes
          /\ call' = [fn |-> "delete_record", record_id |-> Num(1)]
          /\ session' = out.session
          /\ saved_records' = out.saved_records
          /\ save_actions' = out.save_actions
          /\ result' = out.result
          /\ UNCHANGED <<final_gpa_records, last_success, cookies, requests>>

\* The browser posts a body to /calculate-final-gpa.
AccountCalculateFinalGpa ==
    \E data \in AccountFinalBodies :
        LET out == calculate_final_gpa(session, saved_records, data, "up")
        IN /\ Len(Flashes(out.session)) <= MaxFlashes
           /\ call' = [fn |-> "calculate_final_gpa", json |-> data]
           /\ session' = out.session
           /\ saved_records' = out.saved_records
           /\ result' = out.result
           /\ UNCHANGED <<save_actions, final_gpa_records, last_success, cookies, requests>>

\* The browser posts a form to /save-final-gpa.
AccountSaveFinalGpa ==
    /\ Len(final_gpa_records) < MaxFinals
    /\ \E form \in AccountForms :
          LET out == save_final_gpa(session, final_gpa_records, save_actions, form,
                                    <<"up", "up">>)
          IN /\ Len(Flashes(out.session)) <= MaxFlashes
             /\ call' = [fn |-> "save_final_gpa", form |-> form]
             /\ session' = out.session
             /\ final_gpa_records' = out.final_gpa_records
             /\ save_actions' = out.save_actions
             /\ result' = out.result
             /\ UNCHANGED <<saved_records, last_success, cookies, requests>>

NextAccount ==
    \/ AccountLogin
    \/ AccountLogout
    \/ AccountCalculate
    \/ AccountSaveResult
    \/ AccountDeleteRecord
    \/ AccountCalculateFinalGpa
    \/ AccountSaveFinalGpa

SpecAccount == InitAccount /\ [][NextAccount]_vars

---------------------------------------------------------------------------
(* SpecOwnership: the deletes and final calculations of two logged-in      *)
(* users, interleaved statement by statement                               *)

\* Browser b is logged in as user b.  Each statement of a handler is
\* committed on its own (execute_query, lines 53-94), so the statements of
\* two requests interleave; requests[b].pc is the statement that the request
\* of browser b runs next.

\* The rows of saved_records: rows 1 and 3 are of user 1, rows 2 and 4 of
\* user 2.
OwnershipRows ==
    <<saved_record(1, 1, "T1", "", "", calculation_of(<<Dict([grade |-> Str(<<"A">>)])>>)),
      saved_record(2, 2, "T2", "", "", calculation_of(<<Dict([grade |-> Str(<<"B">>)])>>)),
      saved_record(3, 1, "T3", "", "", calculation_of(<<Dict([grade |-> Str(<<"C">>)])>>)),
      saved_record(4, 2, "T4", "", "", calculation_of(<<Dict([grade |-> Str(<<"D">>)])>>))>>

\* The ids sent to /delete-record: a row of each user.
OwnershipIds == {Num(1), Num(2)}

\* The bodies sent to /calculate-final-gpa: the two rows of user 1, the two
\* rows of user 2, and a row of each.
OwnershipBodies ==
    {Dict([first_semester_id |-> Num(1), second_semester_id |-> Num(3)]),
     Dict([first_semester_id |-> Num(2), second_semester_id |-> Num(4)]),
     Dict([first_semester_id |-> Num(1), second_semester_id |-> Num(4)])}

\* The most /delete-record requests of a browser (each leaves a message in
\* session['_flashes']).
MaxDeletes == 1

\* The database at a statement.
StatementStates == {"up", "down"}

InitOwnership ==
    /\ cookies = [b \in Browsers |-> login_session(b)]
    /\ requests = [b \in Browsers |-> [pc |-> "idle"]]
    /\ saved_records = OwnershipRows
    /\ save_actions = <<>>
    /\ final_gpa_records = <<>>
    /\ session = EmptyDict
    /\ call = [fn |-> "none"]
    /\ result = Pending
    /\ last_success = None

\* The request of browser b once its handler has returned.
handled(request, sess, response) ==
    [pc |-> "handled", fn |-> request.fn, args |-> request.args,
     session |-> sess, result |-> response]

\* The server receives a /delete-record/<id> of browser b.
ReceiveDelete(b) ==
    /\ requests[b].pc = "idle"
    /\ Len(Flashes(cookies[b])) < MaxDeletes
    /\ \E id \in OwnershipIds :
          requests' = [requests EXCEPT ![b] =
                          [pc |-> "select", fn |-> "delete_record", args |-> id,
                           session |-> open_session(cookies, b)]]
    /\ UNCHANGED <<cookies, session, saved_records, call, result, save_actions,
                   last_success, final_gpa_records>>

\* The SELECT of delete_record, lines 422-425.
DeleteSelect(b) ==
    /\ requests[b].pc = "select"
    /\ \E d \in StatementStates :
          LET r == requests[b]
              records == execute_query(d, select_record(saved_records, r.args,
                                                        r.session["user_id"]))
              out == delete_record_selected(r.session, saved_records, save_actions, r.args,
                                            <<d, "up", "up">>, records)
          IN requests' = [requests EXCEPT ![b] =
                            IF records.ok /\ records.v # <<>>
                            THEN [pc |-> "insert", fn |-> r.fn, args |-> r.args,
                                  session |-> r.session, record |-> records.v[1]]
                            ELSE handled(r, out.session, out.result)]
    /\ UNCHANGED <<cookies, session, saved_records, call, result, save_actions,
                   last_success, final_gpa_records>>

\* The INSERT into save_actions of delete_record, lines 428-431.
DeleteInsert(b) ==
    /\ requests[b].pc = "insert"
    /\ \E d \in StatementStates :
          LET r == requests[b]
              out == delete_record_logged(r.session, saved_records, save_actions, r.args,
                                          r.record, <<"up", d, "down">>,
                                          execute_query(d, <<>>))
          IN /\ save_actions' = out.save_actions
             /\ requests' = [requests EXCEPT ![b] =
                               IF d = "up"
                               THEN [pc |-> "delete", fn |-> r.fn, args |-> r.args,
                                     session |-> r.session]
                               ELSE handled(r, out.session, out.result)]
    /\ UNCHANGED <<cookies, session, saved_records, call, result, last_success,
                   final_gpa_records>>

\* The DELETE of delete_record and its answer, lines 433-439.
DeleteDelete(b) ==
    /\ requests[b].pc = "delete"
    /\ \E d \in StatementStates :
          LET r == requests[b]
              out == delete_record_deleted(r.session, saved_records, save_actions, r.args,
                                           execute_query(d, <<>>))
          IN /\ saved_records' = out.saved_records
             /\ requests' = [requests EXCEPT ![b] = handled(r, out.session, out.result)]
    /\ UNCHANGED <<cookies, session, call, result, save_actions, last_success,
                   final_gpa_records>>

\* The server receives a /calculate-final-gpa of browser b.
ReceiveFinal(b) ==
    /\ requests[b].pc = "idle"
    /\ \E data \in OwnershipBodies :
          requests' = [requests EXCEPT ![b] =
                          [pc |-> "first", fn |-> "calculate_final_gpa", args |-> data,
                           session |-> open_session(cookies, b)]]
    /\ UNCHANGED <<cookies, session, saved_records, call, result, save_actions,
                   last_success, final_gpa_records>>

\* The first SELECT of calculate_final_gpa, lines 459-462.
FinalFirst(b) ==
    /\ requests[b].pc = "first"
    /\ \E d \in StatementStates :
          LET r == requests[b]
              first == execute_query(d,
                           select_record(saved_records,
                                         get(r.args, "first_semester_id", None).v,
                                         r.session["user_id"]))
              out == final_queried(r.session, saved_records, first, first)
          IN requests' = [requests EXCEPT ![b] =
                            IF first.ok
                            THEN [pc |-> "second", fn |-> r.fn, args |-> r.args,
                                  session |-> r.session, first |-> first]
                            ELSE handled(r, out.session, out.result)]
    /\ UNCHANGED <<cookies, session, saved_records, call, result, save_actions,
                   last_success, final_gpa_records>>

\* The second SELECT of calculate_final_gpa and what follows it, lines
\* 463-499.
FinalSecond(b) ==
    /\ requests[b].pc = "second"
    /\ \E d \in StatementStates :
          LET r == requests[b]
              second == execute_query(d,
                            select_record(saved_records,
                                          get(r.args, "second_semester_id", None).v,
                                          r.session["user_id"]))
              out == final_queried(r.session, saved_records, r.first, second)
          IN requests' = [requests EXCEPT ![b] = handled(r, out.session, out.result)]
    /\ UNCHANGED <<cookies, session, saved_records, call, result, save_actions,
                   last_success, final_gpa_records>>

\* The response is sent to browser b, and with it the session of the request.
OwnershipRespond(b) ==
    /\ requests[b].pc = "handled"
    /\ cookies' = save_session(cookies, b, requests[b].session)
    /\ requests' = [requests EXCEPT ![b] = [pc |-> "idle"]]
    /\ UNCHANGED <<session, saved_records, call, result, save_actions, last_success,
                   final_gpa_records>>

NextOwnership ==
    \E b \in Browsers :
        \/ ReceiveDelete(b)
        \/ DeleteSelect(b)
        \/ DeleteInsert(b)
        \/ DeleteDelete(b)
        \/ ReceiveFinal(b)
        \/ FinalFirst(b)
        \/ FinalSecond(b)
        \/ OwnershipRespond(b)

SpecOwnership == InitOwnership /\ [][NextOwnership]_vars

---------------------------------------------------------------------------
(* The vocabulary of the properties *)

\* The call in flight has run.
Done == result # Pending

\* /calculate ran its body (the browser was logged in) and answered.
CalculateAnswered == call.fn = "calculate" /\ result.t = "response"

\* /calculate-final-gpa ran its body and answered.
FinalAnswered == call.fn = "calculate_final_gpa" /\ result.t = "response"

\* The body of the /calculate request carries a list under `modules`.
SubmitsList ==
    /\ call.fn = "calculate"
    /\ call.json.t = "dict"
    /\ "modules" \in DOMAIN call.json.v
    /\ call.json.v.modules.t = "list"

\* That list.
Submitted == call.json.v.modules.v

SixGrades == {Str(<<g>>) : g \in GradeLetters}
GateGrades == {Str(<<"E">>), Str(<<"F">>)}
PassingGrades == SixGrades \ GateGrades

\* m is a module object that carries a grade field.
HasGrade(m) == m.t = "dict" /\ "grade" \in DOMAIN m.v

\* m is a module object whose submitted grade is E or F.
IsGated(m) == HasGrade(m) /\ m.v.grade \in GateGrades

\* m is a malformed module object: no grade field, or a grade outside A..F.
IsMalformed(m) == m.t = "dict" /\ ("grade" \notin DOMAIN m.v \/ m.v.grade \notin SixGrades)

\* Every submitted grade is one of A, B, C, D: the normal path.
NormalPath(xs) == \A i \in 1..Len(xs) : HasGrade(xs[i]) /\ xs[i].v.grade \in PassingGrades

\* The three responses of /calculate.
PolicyBlock ==
    /\ result.t = "response"
    /\ DOMAIN result.json = {"blocked", "reason", "message"}
    /\ result.json.blocked = TRUE
    /\ result.json.reason = "E_or_F_present"
    /\ result.json.message # ""

ComputationError ==
    /\ result.t = "response"
    /\ DOMAIN result.json = {"blocked", "message"}
    /\ result.json.blocked = TRUE
    /\ result.json.message # ""

CalculateSuccess ==
    /\ result.t = "response"
    /\ DOMAIN result.json = {"blocked", "gpa", "status", "details", "message"}
    /\ result.json.blocked = FALSE

\* The escalation order and the point table as the specification states them.
NextWorse(g) ==
    CASE g = Str(<<"A">>) -> Str(<<"B">>)
      [] g = Str(<<"B">>) -> Str(<<"C">>)
      [] g = Str(<<"C">>) -> Str(<<"D">>)
      [] g = Str(<<"D">>) -> Str(<<"E">>)
      [] g = Str(<<"E">>) -> Str(<<"F">>)
      [] g = Str(<<"F">>) -> Str(<<"F">>)

TablePoints(g) ==
    CASE g = Str(<<"A">>) -> 5
      [] g = Str(<<"B">>) -> 4
      [] g = Str(<<"C">>) -> 3
      [] g = Str(<<"D">>) -> 2
      [] g = Str(<<"E">>) -> 1
      [] g = Str(<<"F">>) -> 0

\* The reference flag of a module object, false when absent.
FlagOf(m) == IF "reference" \in DOMAIN m.v THEN m.v.reference ELSE Bool(FALSE)

\* The effective grade the specification gives a module object.
EffectiveGrade(m) == IF FlagOf(m) = Bool(TRUE) THEN NextWorse(m.v.grade) ELSE m.v.grade

\* The sum of the effective points of the first k modules.
RECURSIVE PointSum(_, _)
PointSum(xs, k) ==
    IF k = 0 THEN 0 ELSE PointSum(xs, k - 1) + TablePoints(EffectiveGrade(xs[k]))

\* |x|
Abs(x) == IF x < 0 THEN 0 - x ELSE x

\* The four status bands as the specification states them (hundredths).
Band(g) ==
    CASE g >= 400 -> "Excellent Pass"
      [] 300 <= g /\ g < 400 -> "Pass"
      [] 270 <= g /\ g < 300 -> "Fail"
      [] g < 270 -> "Withdrew"

\* A GPA as the message shows it: "5.0", "2.5", "3.33".
GpaText(h) ==
    IF h % 100 = 0 THEN int_str(h \div 100) \o ".0"
    ELSE IF h % 10 = 0 THEN int_str(h \div 100) \o "." \o int_str((h % 100) \div 10)
    ELSE int_str(h \div 100) \o "." \o int_str((h % 100) \div 10) \o int_str(h % 10)

\* The rows of the table that an id sent by the logged-in user resolves to.
OwnRows(id) ==
    SelectSeq(saved_records,
              LAMBDA row : row.id = id.v /\ row.user_id = session["user_id"])

---------------------------------------------------------------------------
(* C1 *)

\* C1: a submitted list whose entries all carry a grade and of which at least
\* one grade is E or F is answered with the policy block (blocked = true,
\* reason "E_or_F_present", a message) and no gpa, status or details,
\* whatever the other grades and flags and wherever the E/F entry stands.
C1_GatePrecedence ==
    (/\ CalculateAnswered
     /\ SubmitsList
     /\ \A i \in 1..Len(Submitted) : HasGrade(Submitted[i])
     /\ \E i \in 1..Len(Submitted) : IsGated(Submitted[i]))
        => PolicyBlock

\* An E/F entry in second place, after a valid entry sat as a reference, is
\* blocked.
C1_Witness ==
    /\ CalculateAnswered
    /\ SubmitsList
    /\ Len(Submitted) = 2
    /\ HasGrade(Submitted[1])
    /\ Submitted[1].v.grade = Str(<<"A">>)
    /\ FlagOf(Submitted[1]) = Bool(TRUE)
    /\ IsGated(Submitted[2])
    /\ PolicyBlock

---------------------------------------------------------------------------
(* C2 *)

\* C2: for each of the six grades g, apply_reference(g, false) returns g and
\* apply_reference(g, true) returns the next grade of A,B,C,D,E,F, F staying
\* F; the result is one of the six grades and no exception is raised.
C2_GradeResolver ==
    (/\ Done
     /\ call.fn = "apply_reference"
     /\ call.grade \in SixGrades)
        => /\ result.value.ok
           /\ result.value.v \in SixGrades
           /\ call.is_ref = Bool(FALSE) => result.value.v = call.grade
           /\ call.is_ref = Bool(TRUE) => result.value.v = NextWorse(call.grade)

\* F sat as a reference stays F.
C2_Witness ==
    /\ Done
    /\ call.fn = "apply_reference"
    /\ call.grade = Str(<<"F">>)
    /\ call.is_ref = Bool(TRUE)
    /\ result.value = Return(Str(<<"F">>))

---------------------------------------------------------------------------
(* C3 *)

\* C3: on the normal path details has one element per submitted module, in
\* the order submitted, with grade_before the submitted grade, grade_after
\* the grade after the reference adjustment (reference false when absent),
\* points the table value of grade_after, and label, code and reference
\* those of the module (null, the empty string and false when absent).
C3_Details ==
    (/\ CalculateAnswered
     /\ SubmitsList
     /\ NormalPath(Submitted))
        => /\ CalculateSuccess
           /\ Len(result.json.details) = Len(Submitted)
           /\ \A i \in 1..Len(Submitted) :
                LET m == Submitted[i]
                    d == result.json.details[i]
                IN /\ d.grade_before = m.v.grade
                   /\ d.grade_after = EffectiveGrade(m)
                   /\ d.points = TablePoints(EffectiveGrade(m))
                   /\ d.label = (IF "label" \in DOMAIN m.v THEN m.v.label ELSE None)
                   /\ d.code = (IF "code" \in DOMAIN m.v THEN m.v.code ELSE Str(<<>>))
                   /\ d.reference = FlagOf(m)

\* [D, C sat as a reference]: the second module ends as D, GPA 2.0, Withdrew.
C3_Witness ==
    /\ CalculateAnswered
    /\ SubmitsList
    /\ Len(Submitted) = 2
    /\ HasGrade(Submitted[1]) /\ Submitted[1].v.grade = Str(<<"D">>)
    /\ FlagOf(Submitted[1]) = Bool(FALSE)
    /\ HasGrade(Submitted[2]) /\ Submitted[2].v.grade = Str(<<"C">>)
    /\ FlagOf(Submitted[2]) = Bool(TRUE)
    /\ "label" \in DOMAIN Submitted[1].v
    /\ "code" \in DOMAIN Submitted[2].v
    /\ CalculateSuccess
    /\ result.json.details[2].grade_after = Str(<<"D">>)
    /\ result.json.gpa = 200
    /\ result.json.status = "Withdrew"

---------------------------------------------------------------------------
(* C4 *)

\* C4: on the normal path with n >= 1 modules the gpa is the hundredth
\* nearest to (sum of points(grade_after) * 3) / (3 * n): every module weighs
\* the same credit 3.
C4_WeightedMean ==
    (/\ CalculateAnswered
     /\ SubmitsList
     /\ NormalPath(Submitted)
     /\ Len(Submitted) >= 1)
        => /\ CalculateSuccess
           /\ LET n == Len(Submitted)
                  S == PointSum(Submitted, n)
              IN 2 * Abs(result.json.gpa * (3 * n) - 100 * (S * 3)) <= 3 * n

\* [A, A, C]: 13/3 is rounded to 4.33.
C4_Witness ==
    /\ CalculateAnswered
    /\ SubmitsList
    /\ NormalPath(Submitted)
    /\ Len(Submitted) = 3
    /\ PointSum(Submitted, 3) = 13
    /\ CalculateSuccess
    /\ result.json.gpa = 433

---------------------------------------------------------------------------
(* C5 *)

\* C5: the status returned with a gpa by /calculate, and with a final_gpa by
\* /calculate-final-gpa, is the band of that value: Excellent Pass from 4.0,
\* Pass from 3.0 to below 4.0, Fail from 2.7 to below 3.0, Withdrew below
\* 2.7; the two operations use the same bands.
C5_StatusBands ==
    /\ (CalculateAnswered /\ CalculateSuccess)
          => result.json.status = Band(result.json.gpa)
    /\ (FinalAnswered /\ result.json.success)
          => result.json.status = Band(result.json.final_gpa)

\* A final GPA of exactly 2.7 is a Fail.
C5_Witness ==
    /\ FinalAnswered
    /\ result.json.success
    /\ result.json.final_gpa = 270
    /\ result.json.status = "Fail"

---------------------------------------------------------------------------
(* C6 *)

\* C6: a successful /calculate response carries the message "Your semester
\* GPA is {gpa} --- {status}." built from the gpa and the status of the same
\* response, two A modules giving "Your semester GPA is 5.0 --- Excellent
\* Pass.", and session['last_calculation'] holds the same message.
C6_Message ==
    (CalculateAnswered /\ CalculateSuccess)
        => /\ result.json.message =
                "Your semester GPA is " \o GpaText(result.json.gpa) \o " --- "
                    \o result.json.status \o "."
           /\ "last_calculation" \in DOMAIN session
           /\ session["last_calculation"].message = result.json.message
           /\ (/\ SubmitsList
               /\ Len(Submitted) = 2
               /\ \A i \in 1..2 : /\ HasGrade(Submitted[i])
                                  /\ Submitted[i].v.grade = Str(<<"A">>)
                                  /\ FlagOf(Submitted[i]) = Bool(FALSE))
                 => result.json.message = "Your semester GPA is 5.0 --- Excellent Pass."

\* Two A modules, answered to a browser that held an earlier calculation.
C6_Witness ==
    /\ CalculateAnswered
    /\ CalculateSuccess
    /\ SubmitsList
    /\ Len(Submitted) = 2
    /\ \A i \in 1..2 : /\ HasGrade(Submitted[i])
                       /\ Submitted[i].v.grade = Str(<<"A">>)
                       /\ FlagOf(Submitted[i]) = Bool(FALSE)
    /\ result.json.message = "Your semester GPA is 5.0 --- Excellent Pass."
    /\ session["last_calculation"].message = result.json.message

---------------------------------------------------------------------------
(* C7 *)

\* C7: when both ids resolve to rows of the logged-in user (the database
\* answering the two queries),
\* /calculate-final-gpa returns the stored gpa of the first and of the
\* second row as first_gpa and second_gpa, and as final_gpa a hundredth
\* nearest to their mean; 4.2 and 3.6 give 3.9, Pass.
C7_FinalAggregator ==
    (/\ FinalAnswered
     /\ call.database = "up"
     /\ DOMAIN call.json.v = {"first_semester_id", "second_semester_id"}
     /\ OwnRows(call.json.v.first_semester_id) # <<>>
     /\ OwnRows(call.json.v.second_semester_id) # <<>>)
        => LET first == OwnRows(call.json.v.first_semester_id)[1]
               second == OwnRows(call.json.v.second_semester_id)[1]
           IN /\ result.json.success
              /\ result.json.first_gpa = first.gpa
              /\ result.json.second_gpa = second.gpa
              /\ Abs(2 * result.json.final_gpa - (first.gpa + second.gpa)) <= 1
              /\ (first.gpa = 420 /\ second.gpa = 360)
                    => (result.json.final_gpa = 390 /\ result.json.status = "Pass")

\* 4.2 and 3.6 give 3.9, Pass.
C7_Witness ==
    /\ FinalAnswered
    /\ result.json.success
    /\ call.json.v.first_semester_id # call.json.v.second_semester_id
    /\ result.json.first_gpa = 420
    /\ result.json.second_gpa = 360
    /\ result.json.final_gpa = 390
    /\ result.json.status = "Pass"

---------------------------------------------------------------------------
(* C8 *)

\* C8: /calculate with modules = [] or with no modules key is neither an
\* error nor a block: blocked = false, gpa 0.0, status Withdrew, details [].
C8_EmptyList ==
    (/\ CalculateAnswered
     /\ call.json.t = "dict"
     /\ ("modules" \notin DOMAIN call.json.v \/ call.json.v.modules = List(<<>>)))
        => /\ CalculateSuccess
           /\ result.status = 200
           /\ result.json.gpa = 0
           /\ result.json.status = "Withdrew"
           /\ result.json.details = <<>>

\* The modules key is absent.
C8_Witness ==
    /\ CalculateAnswered
    /\ call.json = Dict(EmptyDict)
    /\ CalculateSuccess
    /\ result.json.gpa = 0

---------------------------------------------------------------------------
(* C9 *)

\* C9: a submitted list with no E/F entry that holds an entry without a grade
\* field, or with a grade outside A..F (sat as a reference or not), is
\* answered with the computation error (blocked = true, a message, no reason)
\* and no gpa.
C9_MalformedEntries ==
    (/\ CalculateAnswered
     /\ SubmitsList
     /\ \A i \in 1..Len(Submitted) : ~IsGated(Submitted[i])
     /\ \E i \in 1..Len(Submitted) : IsMalformed(Submitted[i]))
        => ComputationError

\* A valid module followed by a module of grade Z that is no reference.
C9_Witness ==
    /\ CalculateAnswered
    /\ SubmitsList
    /\ Len(Submitted) = 2
    /\ HasGrade(Submitted[1]) /\ Submitted[1].v.grade = Str(<<"A">>)
    /\ HasGrade(Submitted[2]) /\ Submitted[2].v.grade = Str(<<"Z">>)
    /\ FlagOf(Submitted[2]) = Bool(FALSE)
    /\ ComputationError

---------------------------------------------------------------------------
(* C10 *)

\* C10: a modules value that is no list (a string, a number, an object or
\* null, empty or not) is answered with the computation error and never with
\* a gpa and a status.
C10_NonList ==
    (/\ CalculateAnswered
     /\ call.json.t = "dict"
     /\ "modules" \in DOMAIN call.json.v
     /\ call.json.v.modules.t # "list")
        => ComputationError

---------------------------------------------------------------------------
(* C11 *)

\* C11: a submitted list that holds an E/F entry together with a malformed
\* entry (no grade field, or a grade outside A..F), the malformed entry
\* before or after the E/F entry, is answered with the policy block and not
\* with the computation error.
C11_GateVersusMalformed ==
    (/\ CalculateAnswered
     /\ SubmitsList
     /\ \E i \in 1..Len(Submitted) : IsGated(Submitted[i])
     /\ \E i \in 1..Len(Submitted) : IsMalformed(Submitted[i]))
        => PolicyBlock

---------------------------------------------------------------------------
(* C12 *)

\* C12: a list whose submitted grades are all A, B, C or D is never blocked:
\* it is answered with a success whose entries have a grade_after among A..E,
\* and a module with grade D sat as a reference gets grade_after E and one
\* point.
C12_GateBeforeAdjustment ==
    (/\ CalculateAnswered
     /\ SubmitsList
     /\ NormalPath(Submitted))
        => /\ CalculateSuccess
           /\ Len(result.json.details) = Len(Submitted)
           /\ \A i \in 1..Len(Submitted) :
                 /\ result.json.details[i].grade_after \in SixGrades \ {Str(<<"F">>)}
                 /\ (Submitted[i].v.grade = Str(<<"D">>) /\ FlagOf(Submitted[i]) = Bool(TRUE))
                       => /\ result.json.details[i].grade_after = Str(<<"E">>)
                          /\ result.json.details[i].points = 1

\* A module with grade D sat as a reference, after a module with grade A, is
\* counted with grade E and one point.
C12_Witness ==
    /\ CalculateAnswered
    /\ SubmitsList
    /\ Len(Submitted) = 2
    /\ NormalPath(Submitted)
    /\ Submitted[2].v.grade = Str(<<"D">>)
    /\ FlagOf(Submitted[2]) = Bool(TRUE)
    /\ CalculateSuccess
    /\ result.json.details[2].grade_after = Str(<<"E">>)
    /\ result.json.gpa = 300

---------------------------------------------------------------------------
(* C13 *)

\* The calculation a session holds, None when it holds none.
LastCalculation(s) == IF "last_calculation" \in DOMAIN s THEN s["last_calculation"] ELSE None

\* C13: a /calculate answered with blocked = true (policy block or
\* computation error, an error at a later module included) carries no gpa,
\* status or details and leaves session['last_calculation'] as it was; and
\* any step that changes session['last_calculation'] ends in a full success
\* response.
C13_NoPartialSuccess ==
    [][/\ (/\ call.fn = "calculate"
           /\ result'.t = "response"
           /\ result'.json.blocked = TRUE)
              => /\ DOMAIN result'.json \cap {"gpa", "status", "details"} = {}
                 /\ LastCalculation(session') = LastCalculation(session)
       /\ (LastCalculation(session') # LastCalculation(session))
              => /\ call.fn = "calculate"
                 /\ result'.t = "response"
                 /\ DOMAIN result'.json = {"blocked", "gpa", "status", "details", "message"}
                 /\ result'.json.blocked = FALSE]_vars

\* A session that holds a calculation still holds it after a list whose
\* second module has an unknown grade was refused.
C13_Witness ==
    /\ CalculateAnswered
    /\ SubmitsList
    /\ Len(Submitted) = 2
    /\ HasGrade(Submitted[1]) /\ Submitted[1].v.grade = Str(<<"A">>)
    /\ IsMalformed(Submitted[2])
    /\ ComputationError
    /\ LastCalculation(session) # None
    /\ LastCalculation(session).gpa = 400

---------------------------------------------------------------------------
(* C14 *)

\* C14: a list of N >= 1 modules that all have the same grade g among A, B,
\* C, D and are no reference has a gpa equal to the points of g (5.0, 4.0,
\* 3.0 or 2.0), whatever N is.
C14_UniformGrades ==
    \A g \in PassingGrades :
        (/\ CalculateAnswered
         /\ SubmitsList
         /\ Len(Submitted) >= 1
         /\ \A i \in 1..Len(Submitted) :
               /\ HasGrade(Submitted[i])
               /\ Submitted[i].v.grade = g
               /\ FlagOf(Submitted[i]) = Bool(FALSE))
            => /\ CalculateSuccess
               /\ result.json.gpa = 100 * TablePoints(g)

\* Five or more modules of grade C have the GPA 3.0.
C14_Witness ==
    /\ CalculateAnswered
    /\ SubmitsList
    /\ Len(Submitted) >= 5
    /\ \A i \in 1..Len(Submitted) :
          /\ HasGrade(Submitted[i])
          /\ Submitted[i].v.grade = Str(<<"C">>)
          /\ FlagOf(Submitted[i]) = Bool(FALSE)
    /\ CalculateSuccess
    /\ result.json.gpa = 300
    /\ result.json.status = "Pass"

---------------------------------------------------------------------------
(* C15 *)

\* /calculate-final-gpa answered with a final GPA.
FinalSuccess == FinalAnswered /\ result.json.success

Max(a, b) == IF a > b THEN a ELSE b

\* C15: the gpa of every successful /calculate lies in [0.0, 5.0], whatever
\* the list and its reference flags; the final_gpa of every successful
\* /calculate-final-gpa lies in [0.0, 5.0] and between the smaller and the
\* larger of the two stored GPAs.
C15_Range ==
    /\ (CalculateAnswered /\ CalculateSuccess)
          => (0 <= result.json.gpa /\ result.json.gpa <= 500)
    /\ FinalSuccess
          => /\ 0 <= result.json.final_gpa
             /\ result.json.final_gpa <= 500
             /\ Min(result.json.first_gpa, result.json.second_gpa) <= result.json.final_gpa
             /\ result.json.final_gpa <= Max(result.json.first_gpa, result.json.second_gpa)

\* Two stored GPAs whose mean is no hundredth, the larger being 5.0 and the
\* smaller at least 4.5: the final GPA is at most 5.0.
C15_Witness ==
    /\ FinalSuccess
    /\ Max(result.json.first_gpa, result.json.second_gpa) = 500
    /\ Min(result.json.first_gpa, result.json.second_gpa) < 500
    /\ Min(result.json.first_gpa, result.json.second_gpa) >= 450
    /\ (result.json.first_gpa + result.json.second_gpa) % 2 = 1
    /\ result.json.final_gpa <= 500

---------------------------------------------------------------------------
(* C16 *)

\* The two hundredths a standard round-half rule gives the tie lo + 1/2:
\* lo + 1 (half up, half away from zero) or the even one of lo and lo + 1.
RoundHalfResults(lo) == {lo + 1, IF lo % 2 = 0 THEN lo ELSE lo + 1}

\* C16: a semester gpa whose exact quotient lies halfway between two
\* hundredths (9 points over 8 modules, 1.125) and a final gpa whose exact
\* mean does (an odd sum of the two GPAs in hundredths) are both the result of
\* a standard round-half rule, the same in both operations.
C16_Rounding ==
    /\ (/\ CalculateAnswered
        /\ CalculateSuccess
        /\ SubmitsList
        /\ NormalPath(Submitted)
        /\ Len(Submitted) > 0
        /\ (200 * PointSum(Submitted, Len(Submitted))) % Len(Submitted) = 0
        /\ ((200 * PointSum(Submitted, Len(Submitted))) \div Len(Submitted)) % 2 = 1)
          => result.json.gpa \in
                RoundHalfResults((100 * PointSum(Submitted, Len(Submitted)))
                                     \div Len(Submitted))
    /\ (/\ FinalSuccess
        /\ (result.json.first_gpa + result.json.second_gpa) % 2 = 1)
          => result.json.final_gpa \in
                RoundHalfResults((result.json.first_gpa + result.json.second_gpa) \div 2)

---------------------------------------------------------------------------
(* C17 *)

\* The response to the body of the call in flight when it is sent from the
\* session of user 1 directly after the login.
FreshResponse == calculate(login_session(1), <<>>, call.json).result

\* C17: whatever the session holds before the call (an earlier
\* last_calculation, a final_calculation, num_modules) and whichever user is
\* logged in, /calculate answers a body as it answers the same body from a
\* fresh session of user 1: blocked, reason, gpa, status, details and message
\* are a function of the modules sent.
C17_Determinism ==
    CalculateAnswered => result = FreshResponse

\* User 2, whose session holds the calculation of one module of grade C, a
\* final calculation and num_modules, is answered 5.0 for two modules of
\* grade A.
C17_Witness ==
    /\ CalculateAnswered
    /\ CalculateSuccess
    /\ SubmitsList
    /\ Len(Submitted) = 2
    /\ session["user_id"] = 2
    /\ "final_calculation" \in DOMAIN session
    /\ "num_modules" \in DOMAIN session
    /\ result.json.gpa = 500
    /\ result = FreshResponse

---------------------------------------------------------------------------
(* C19 *)

\* The final calculation a session holds, None when it holds none.
FinalCalculation(s) ==
    IF "final_calculation" \in DOMAIN s THEN s["final_calculation"] ELSE None

\* The id sent under a key of the body resolves to a row of the logged-in
\* user; an absent key is the id None and resolves to nothing.
Resolves(key) == key \in DOMAIN call.json.v /\ OwnRows(call.json.v[key]) # <<>>

\* C19: when one of the two ids resolves to no row of the logged-in user (an
\* id of no row, of a row of another user, or no id), the queries having
\* run, /calculate-final-gpa answers success = false with the message 'One or
\* both semester records not found' and no final_gpa or status, and
\* session['final_calculation'] keeps the value it had.
C19_LookupFailure ==
    [][(/\ call.fn = "calculate_final_gpa"
        /\ call.database = "up"
        /\ "user_id" \in DOMAIN session
        /\ ~(Resolves("first_semester_id") /\ Resolves("second_semester_id")))
          => /\ result'.t = "response"
             /\ DOMAIN result'.json = {"success", "message"}
             /\ result'.json.success = FALSE
             /\ result'.json.message = "One or both semester records not found"
             /\ FinalCalculation(session') = FinalCalculation(session)]_vars

\* The second id is that of a row of another user, and the session holds an
\* earlier final calculation, which it keeps.
C19_Witness ==
    /\ FinalAnswered
    /\ call.database = "up"
    /\ call.json.v = [first_semester_id |-> Num(1), second_semester_id |-> Num(2)]
    /\ saved_records[2].user_id # session["user_id"]
    /\ result.json.success = FALSE
    /\ FinalCalculation(session) # None
    /\ FinalCalculation(session).final_gpa = 300

---------------------------------------------------------------------------
(* C20 *)

\* C20: in any sequence of /calculate and /save-result requests of one
\* session, a row is added to saved_records only by save_result, one at a
\* time and after the rows already there, and it carries the gpa, the status
\* and the modules of the latest successful /calculate of the session,
\* whatever blocked or refused /calculate requests came after it; and a
\* /save-result request leaves session['last_calculation'] as it was.
C20_TwoPhaseSave ==
    [][/\ (Len(saved_records') > Len(saved_records))
              => /\ call'.fn = "save_result"
                 /\ last_success # None
                 /\ Len(saved_records') = Len(saved_records) + 1
                 /\ SubSeq(saved_records', 1, Len(saved_records)) = saved_records
                 /\ saved_records'[Len(saved_records')].gpa = last_success.gpa
                 /\ saved_records'[Len(saved_records')].status = last_success.status
                 /\ saved_records'[Len(saved_records')].modules_json
                        = json_dumps(last_success.modules)
       /\ (call'.fn = "save_result")
              => LastCalculation(session') = LastCalculation(session)]_vars

\* Two rows saved from two different calculations: the second row carries
\* the latest successful one, which the session still holds.
C20_Witness ==
    /\ call.fn = "save_result"
    /\ result.t = "response"
    /\ result.json.success
    /\ Len(saved_records) = 2
    /\ saved_records[1].gpa = 500
    /\ saved_records[2].gpa = 250
    /\ saved_records[2].status = "Withdrew"
    /\ last_success.gpa = 250
    /\ LastCalculation(session).gpa = 250

---------------------------------------------------------------------------
(* C18 *)

\* What /calculate does with the request of browser b when no other request
\* is served.
Alone(b) == calculate(requests[b].sent, <<>>, requests[b].json)

\* C18: however the /calculate requests of two browsers are interleaved, the
\* session cookie of a browser is not changed while its request is being
\* served (no other request writes it), and once the request is answered its
\* response and the session the browser holds, last_calculation included,
\* are those of serving the request alone.
C18_ConcurrentIndependence ==
    \A b \in Browsers :
        /\ requests[b].pc \in {"received", "handled"}
              => /\ cookies[b] = requests[b].sent
                 /\ requests[b].pc = "received" => requests[b].session = requests[b].sent
        /\ requests[b].pc = "answered"
              => /\ requests[b].result = Alone(b).result
                 /\ cookies[b] = Alone(b).session

\* Browser 1 has been answered 5.0 while the request of browser 2, received
\* before that answer, has been handled with 2.5 and is not yet answered;
\* browser 2 still holds the calculation it had.
C18_Witness ==
    /\ requests[1].pc = "answered"
    /\ requests[1].result.json.blocked = FALSE
    /\ requests[1].result.json.gpa = 500
    /\ LastCalculation(cookies[1]).gpa = 500
    /\ requests[2].pc = "handled"
    /\ requests[2].result.json.blocked = FALSE
    /\ requests[2].result.json.gpa = 250
    /\ LastCalculation(cookies[2]) # None
    /\ LastCalculation(cookies[2]).gpa = 300

---------------------------------------------------------------------------
(* Claim C25: save_result is all-or-nothing *)

\* The step is a request to /save-result that is answered with JSON.
SaveAnswered == call'.fn = "save_result" /\ result'.t = "response"

\* C25: save_result answers success=true only if the row of saved_records
\* and the row of save_actions are both committed, and whenever it answers
\* success=false neither table has gained a row.  The code commits the
\* INSERT into saved_records on its own (execute_query, lines 53-94), so
\* when the INSERT into save_actions raises, the answer is success=false
\* and the saved_records row stays.
C25_AllOrNothing ==
    [][SaveAnswered =>
          /\ result'.json.success = TRUE =>
                 /\ Len(saved_records') = Len(saved_records) + 1
                 /\ Len(save_actions') = Len(save_actions) + 1
          /\ result'.json.success = FALSE =>
                 /\ saved_records' = saved_records
                 /\ save_actions' = save_actions]_vars

---------------------------------------------------------------------------
(* Claim C24: a saved row belongs to the user who produced the calculation *)

\* The step is a /save-result that adds a row to saved_records.
SaveInserts ==
    /\ call'.fn = "save_result"
    /\ Len(saved_records') = Len(saved_records) + 1

\* C24: for any sequence of login, calculate, save_result and logout on one
\* session, a row added to saved_records carries the user_id of the user who
\* was logged in when the saved calculation was produced (last_success
\* records that user with the calculation).  login (lines 197-200) sets the
\* keys of the user in the session as it is, so a second login without a
\* logout keeps the last_calculation of the first user, and the next
\* /save-result stores it under the second user's id.
C24_Attribution ==
    [][SaveInserts =>
          /\ last_success # None
          /\ saved_records'[Len(saved_records')].user_id = last_success.user_id
          /\ saved_records'[Len(saved_records')].gpa = last_success.gpa]_vars

---------------------------------------------------------------------------
(* Claim C21: the preconditions of save_result *)

\* The form carries a title that is not empty.
HasTitle(form) == "title" \in DOMAIN form.v /\ form.v["title"].v # <<>>

\* The messages that wait in the session.
Flashed(message) == \E i \in 1..Len(Flashes(session)) : Flashes(session)[i].message = message

\* C21: a /save-result of a logged-in browser that has had no successful
\* /calculate since the session began or since the last logout, or that
\* sends no title or an empty one, is answered success=false and adds no
\* row to saved_records and none to save_actions.
C21_SavePreconditions ==
    [][(/\ call'.fn = "save_result"
        /\ "user_id" \in DOMAIN session
        /\ (last_success = None \/ ~HasTitle(call'.form)))
           => /\ result'.t = "response"
              /\ result'.json.success = FALSE
              /\ saved_records' = saved_records
              /\ save_actions' = save_actions]_vars

\* A row was saved, the browser logged out and in again, and a /save-result
\* with a title is refused for want of a calculation.
C21_Witness ==
    /\ call.fn = "save_result"
    /\ HasTitle(call.form)
    /\ "user_id" \in DOMAIN session
    /\ last_success = None
    /\ Flashed("Logged out successfully")
    /\ Len(saved_records) = 1
    /\ result = Response(400, [success |-> FALSE, message |-> "No calculation to save"])

---------------------------------------------------------------------------
(* Claim C22: the guard of the login_required routes *)

\* The routes behind login_required that the browser requests.
GuardedRoutes ==
    {"calculate", "save_result", "delete_record", "calculate_final_gpa", "save_final_gpa"}

\* The session without the messages that wait in it.
Unflashed(s) == [k \in (DOMAIN s) \ {"_flashes"} |-> s[k]]

\* C22: after /logout the session holds no user_id; and a request to a
\* login_required route by a browser whose session holds no user_id is
\* redirected to welcome, its handler does not run: no row of saved_records,
\* save_actions or final_gpa_records is inserted or deleted, and the session
\* is left as it was (last_calculation and final_calculation are not
\* written) but for the flashed message.
C22_AuthGuard ==
    /\ [](call.fn = "logout" => "user_id" \notin DOMAIN session)
    /\ [][(call'.fn \in GuardedRoutes /\ "user_id" \notin DOMAIN session)
             => /\ result' = Redirect("welcome")
                /\ saved_records' = saved_records
                /\ save_actions' = save_actions
                /\ final_gpa_records' = final_gpa_records
                /\ Unflashed(session') = Unflashed(session)
                /\ LastCalculation(session') = None
                /\ FinalCalculation(session') = None
                /\ Flashes(session') =
                       Flashes(session) \o <<[category |-> "error",
                                              message |-> "Please log in to access this page"]>>]_vars

\* After a row was saved and the browser logged out, a request to delete
\* that row is redirected to welcome and the row is still there.
C22_Witness ==
    /\ call.fn = "delete_record"
    /\ "user_id" \notin DOMAIN session
    /\ Flashed("Logged out successfully")
    /\ Flashed("Please log in to access this page")
    /\ Len(saved_records) = 1
    /\ saved_records[1].id = call.record_id.v
    /\ result = Redirect("welcome")

---------------------------------------------------------------------------
(* Claim C23: a user deletes and uses only rows of their own *)

\* The message flashed last in a session.
LastFlash(s) == Flashes(s)[Len(Flashes(s))].message

\* The rows of the table with the id sent under a key of a body.
RowsOf(id) == SelectSeq(OwnershipRows, LAMBDA row : row.id = id.v)

\* The id is of a row that another user than the user of browser b owns.
Foreign(b, id) == RowsOf(id) # <<>> /\ RowsOf(id)[1].user_id # cookies[b]["user_id"]

\* The step of browser b removes no row, or rows of the user of browser b
\* with the id the browser asked to delete.
OwnDeletes(b) ==
    \A i \in 1..Len(saved_records) :
        (\A j \in 1..Len(saved_records') : saved_records'[j] # saved_records[i])
            => /\ requests[b].fn = "delete_record"
               /\ saved_records[i].id = requests[b].args.v
               /\ saved_records[i].user_id = cookies[b]["user_id"]

\* When the step of browser b ends a /calculate-final-gpa in success, the
\* two operands are the gpa of the rows asked for, and the user of browser
\* b owns both rows.
OwnOperands(b) ==
    (/\ requests'[b].pc = "handled"
     /\ requests'[b].fn = "calculate_final_gpa"
     /\ requests'[b].result.status = 200)
        => LET first == RowsOf(requests'[b].args.v["first_semester_id"])[1]
               second == RowsOf(requests'[b].args.v["second_semester_id"])[1]
           IN /\ first.user_id = cookies[b]["user_id"]
              /\ second.user_id = cookies[b]["user_id"]
              /\ requests'[b].result.json.first_gpa = first.gpa
              /\ requests'[b].result.json.second_gpa = second.gpa
              /\ FinalCalculation(requests'[b].session).first_semester = first
              /\ FinalCalculation(requests'[b].session).second_semester = second

\* When the step of browser b ends a request that names a row of another
\* user, saved_records is unchanged and the answer, unless the database
\* failed, is that the row was not found.
ForeignRefused(b) ==
    /\ (/\ requests'[b].pc = "handled"
        /\ requests'[b].fn = "delete_record"
        /\ Foreign(b, requests'[b].args))
           => /\ saved_records' = saved_records
              /\ requests'[b].result = Redirect("saved_records")
              /\ LastFlash(requests'[b].session) \in {"Record not found", "Error deleting record"}
              /\ requests[b].pc = "select"
    /\ (/\ requests'[b].pc = "handled"
        /\ requests'[b].fn = "calculate_final_gpa"
        /\ \/ Foreign(b, requests'[b].args.v["first_semester_id"])
           \/ Foreign(b, requests'[b].args.v["second_semester_id"]))
           => /\ saved_records' = saved_records
              /\ FinalCalculation(requests'[b].session) = FinalCalculation(cookies[b])
              /\ \/ requests'[b].result =
                        Response(400, [success |-> FALSE,
                                       message |-> "One or both semester records not found"])
                 \/ requests'[b].result.status = 500

\* C23: in any interleaving of the statements of the requests of two
\* logged-in users, a delete_record of u removes a row only if the row is
\* owned by u, a calculate_final_gpa of u uses only the gpa of rows owned by
\* u, and a request that names another user's row leaves saved_records
\* unchanged and is answered as not found.
C23_Ownership ==
    [][\A b \in Browsers :
          requests'[b] # requests[b]
              => OwnDeletes(b) /\ OwnOperands(b) /\ ForeignRefused(b)]_vars

\* User 2 has calculated a final GPA over rows 2 and 4 and is about to
\* delete row 2, while the request of user 1 to delete row 2 has been
\* answered 'Record not found'.
C23_Witness ==
    /\ requests[1].pc = "handled"
    /\ requests[1].fn = "delete_record"
    /\ requests[1].args = Num(2)
    /\ LastFlash(requests[1].session) = "Record not found"
    /\ requests[2].pc = "delete"
    /\ requests[2].args = Num(2)
    /\ FinalCalculation(cookies[2]) # None
    /\ Len(saved_records) = 4

====
